---- MODULE Spec2Model ----
(***************************************************************************)
(* Verification model of threads-automation:                               *)
(*   - the feed extraction of scraper.py (extract_posts_from_search,       *)
(*     extract_posts, search_keyword),                                     *)
(*   - the model dispatch and failure handling of call_openai_api,         *)
(*   - the worker-pool pipeline of chatgpt_integration.py (process_posts), *)
(*   - the partitioning, scheduling and writing of main.py                 *)
(*     (save_final_posts_by_account),                                      *)
(*   - the scraper sessions of run_threads_scraper (main.py) and           *)
(*     scrape_threads_by_keywords (scraper.py).                            *)
(* Strings are sequences of characters; a character is a one-letter string *)
(* (a non-ASCII character of the source is written as a romanised token,   *)
(* e.g. "<man>" for the ten-thousand suffix).                              *)
(***************************************************************************)
EXTENDS Integers, Sequences, FiniteSets, TLC

VARIABLES
    \* ---- feed extraction (scraper.py) ----
    exFn,                   \* which extraction method is running
    exPc,                   \* position inside it
    max_posts,              \* argument
    min_likes,              \* argument (extract_posts_from_search only)
    exclude_image_posts,    \* argument
    debug_mode,             \* argument (extract_posts_from_search only)
    posts,                  \* the local list `posts`
    local_post_ids,         \* the local set `local_post_ids`
    attempt_count,          \* the local counter of extract_posts
    posts_found_this_round, \* the local flag of extract_posts
    selIdx,                 \* index into container_selectors (extract_posts)
    scanned,                \* containers handed out by the page so far
    rounds,                 \* iterations of the while loop so far
    exLog,                  \* the kinds of per-container messages logged
    end_of_feed,            \* the page shows the end-of-feed sentinel
    late_scrolls,           \* scroll attempts made while the page showed it
    visits,                 \* (container, n): its fields were extracted n times
    exResult,               \* the value returned
    \* ---- completion gateway (chatgpt_integration.py) ----
    model,                  \* the module global `model`
    apiCalls,               \* the calls of call_openai_api made so far
    \* ---- content pipeline (chatgpt_integration.py, main.py) ----
    MAX_WORKERS,            \* the module global MAX_WORKERS
    inPosts,                \* the argument `posts` of process_posts
    inTargets,              \* the argument `targets` of process_posts
    ppc,                    \* per post: position of its _process_post task
    analysis,               \* per post: the local `analysis`
    template,               \* per post: the local `template`
    gen,                    \* per post and target: the generate task
    postResults,            \* per post: the list returned by _process_post
    drained,                \* results consumed by the loop of process_posts
    final_posts,            \* the local list `final_posts`
    prPc,                   \* position of process_posts / process_csv_file
    final_posts_by_target,  \* the dictionary built by process_csv_file
    lastCall,               \* how the latest gateway call went
    \* ---- output partitioning (main.py, save_final_posts_by_account) ----
    accounts,               \* argument: the account configurations
    generated_posts,        \* argument: target name -> list of results
    target_order,           \* the key order of generated_posts
    targets_dict,           \* argument: the targets that have a configuration
    spPc,                   \* position inside save_final_posts_by_account
    spT,                    \* index of the target being processed
    posts_for_accounts,     \* the dictionary of the current target
    spAcc,                  \* index of the account being saved
    files,                  \* the output directory: file name -> rows
    saved_files,            \* the local list `saved_files`
    now,                    \* datetime.now() of the invocation
    write_log,              \* what the loop over the accounts did, in order
    reinvoked,              \* the function was called a second time
    earlier_files,          \* the output directory when it was called again
    \* ---- scraper sessions (main.py run_threads_scraper, scraper.py
    \*      scrape_threads_by_keywords) ----
    seFn,                   \* the function that runs
    sePc,                   \* position inside it
    seAccounts,             \* per session to open: credentials and keywords
    seAcc,                  \* index of the account being processed
    login_result,           \* what the latest call of login did
    searches_left,          \* keywords still to be searched in this session
    sessions,               \* per ThreadsScraper constructed: calls of close()
    extractions,            \* login_result at each extraction call so far
    all_scraped_posts,      \* the number of posts collected
    csv_written,            \* the scraped-posts CSV was written
    logged_in,              \* the attribute `logged_in` of the latest scraper
    navigations,            \* what each call of navigate_to_threads met and did
    seResult                \* the value returned

exVars == <<exFn, exPc, max_posts, min_likes, exclude_image_posts, debug_mode,
            posts, local_post_ids, attempt_count, posts_found_this_round,
            selIdx, scanned, rounds, exLog, end_of_feed, late_scrolls,
            visits, exResult>>

gwVars == <<model, apiCalls>>

plVars == <<MAX_WORKERS, inPosts, inTargets, ppc, analysis, template, gen,
            postResults, drained, final_posts, prPc, final_posts_by_target,
            lastCall>>

spVars == <<accounts, generated_posts, target_order, targets_dict, spPc, spT,
            posts_for_accounts, spAcc, files, saved_files, now, write_log,
            reinvoked, earlier_files>>

seVars == <<seFn, sePc, seAccounts, seAcc, login_result, searches_left,
            sessions, extractions, all_scraped_posts, csv_written, logged_in,
            navigations, seResult>>

vars == <<exVars, gwVars, plVars, spVars, seVars>>

\* what the actions of one subsystem leave alone
notEx == <<gwVars, plVars, spVars, seVars>>
notGw == <<exVars, plVars, spVars, seVars>>
notPl == <<exVars, gwVars, spVars, seVars>>
notSp == <<exVars, gwVars, plVars, seVars>>
notSe == <<exVars, gwVars, plVars, spVars>>

----------------------------------------------------------------------------
(* Bounds of the model *)

MaxPosts == 2        \* max_posts ranges over 0..MaxPosts
MaxContainers == 3   \* containers the page hands out in one scan / one round
MaxRounds == 2       \* iterations of the extract_posts while loop explored
MaxCalls == 2        \* direct calls of call_openai_api explored
MaxIn == 2           \* posts handed to process_posts
MaxWorkers == 2      \* MAX_WORKERS ranges over 1..MaxWorkers
MaxResults == 5      \* results of one target handed to the partitioner
MaxAccounts == 3     \* accounts of the configuration
MaxSaved == 2        \* results of one target when the writing is explored
MaxWriters == 2      \* accounts of the configuration when the writing is explored
MaxKeywords == 2     \* keywords searched in one scraper session
MaxSessions == 2     \* accounts of scrape_threads_by_keywords

----------------------------------------------------------------------------
(* Strings *)

\* Python None, among strings
None == <<"<None>">>

Min(a, b) == IF a < b THEN a ELSE b

\* Python s[:n]
Take(s, n) == SubSeq(s, 1, Min(n, Len(s)))

\* n copies of character ch
Rep(ch, n) == [i \in 1..n |-> ch]

\* Python `sub in s`
Contains(s, sub) ==
    \E i \in 0..(Len(s) - Len(sub)) : SubSeq(s, i + 1, i + Len(sub)) = sub

StartsWith(s, pre) == Len(pre) <= Len(s) /\ SubSeq(s, 1, Len(pre)) = pre

Digit == {"0", "1", "2", "3", "4", "5", "6", "7", "8", "9"}

DigitVal(ch) ==
    CASE ch = "0" -> 0 [] ch = "1" -> 1 [] ch = "2" -> 2 [] ch = "3" -> 3
      [] ch = "4" -> 4 [] ch = "5" -> 5 [] ch = "6" -> 6 [] ch = "7" -> 7
      [] ch = "8" -> 8 [] ch = "9" -> 9

AllDigits(s) == \A i \in 1..Len(s) : s[i] \in Digit

\* int(s) for a non-empty string of digits
RECURSIVE ParseNat(_)
ParseNat(s) ==
    IF Len(s) = 0 THEN 0
    ELSE 10 * ParseNat(SubSeq(s, 1, Len(s) - 1)) + DigitVal(s[Len(s)])

\* s with every occurrence of the characters in `drop` removed
\* (str.replace(ch, '') for one-character ch; filter(str.isdigit, s))
RECURSIVE Without(_, _)
Without(s, drop) ==
    IF Len(s) = 0 THEN <<>>
    ELSE IF s[1] \in drop THEN Without(Tail(s), drop)
    ELSE <<s[1]>> \o Without(Tail(s), drop)

Pow10(n) == CASE n = 0 -> 1 [] n = 1 -> 10 [] n = 2 -> 100 [] n = 3 -> 1000
              [] n = 4 -> 10000

\* Python float() accepts (among others) digits, optionally followed by a
\* point and digits; everything else that occurs in the pool raises ValueError.
IsFloatText(s) ==
    /\ Len(s) > 0
    /\ Len(Without(s, Digit)) <= 1
    /\ Without(s, Digit) \in {<<>>, <<".">>}
    /\ Len(Without(s, {"."})) > 0

PointPos(s) == IF \E i \in 1..Len(s) : s[i] = "."
               THEN CHOOSE i \in 1..Len(s) : s[i] = "."
               ELSE Len(s) + 1

\* int(float(s) * 10^e), for texts with at most e fractional digits
FloatTimes(s, e) ==
    LET p == PointPos(s)
        ip == SubSeq(s, 1, p - 1)
        fp == SubSeq(s, p + 1, Len(s))
    IN ParseNat(ip) * Pow10(e) + ParseNat(fp) * Pow10(e - Len(fp))

----------------------------------------------------------------------------
(* Like counts *)

OnlyDigits(s) == SelectSeq(s, LAMBDA ch : ch \in Digit)

\* ThreadsScraper._extract_likes: the text of the first span.x17qophe element
ExtractLikes(like_text) ==
    IF like_text = None THEN 0
    ELSE IF Contains(like_text, <<"K">>) \/ Contains(like_text, <<"k">>)
    THEN LET r == Without(like_text, {"K", "k"})
         IN IF IsFloatText(r) THEN FloatTimes(r, 3) ELSE 0
    ELSE IF Contains(like_text, <<"<man>">>)
    THEN LET r == Without(like_text, {"<man>"})
         IN IF IsFloatText(r) THEN FloatTimes(r, 4) ELSE 0
    ELSE ParseNat(OnlyDigits(like_text))

\* like_pattern of extract_posts:  ^\d+$|^\d+[kK]$|^\d+\.\d+[kK]$|^\d+,\d+$
LikePattern(t) ==
    LET n == Len(t)
        body == IF n > 0 /\ t[n] \in {"k", "K"} THEN SubSeq(t, 1, n - 1) ELSE t
        sep == Without(body, Digit)
    IN /\ Len(body) > 0
       /\ body[1] \in Digit /\ body[Len(body)] \in Digit
       /\ \/ sep = <<>>
          \/ sep = <<".">> /\ body # t
          \/ sep = <<",">> /\ body = t

\* the conversion of a matched like text in extract_posts
TimelineLikeValue(t) ==
    IF Contains(t, <<"k">>) \/ Contains(t, <<"K">>)
    THEN FloatTimes(Without(t, {"k", "K"}), 3)
    ELSE ParseNat(Without(t, {","}))

----------------------------------------------------------------------------
(* UI chrome *)

ui_texts == {
    <<"<i>", "<i>", "<ne>">>, <<"<hen>", "<shin>">>, <<"<sai>", "<tou>", "<kou>">>,
    <<"<SI>", "<E>", "<A>">>, <<"<FU>", "<O>", "<RO>", "<->">>,
    <<"<FU>", "<O>", "<RO>", "<->", "<su>", "<ru>">>,
    <<"<mo>", "<tsu>", "<to>", "<mi>", "<ru>">>,
    <<"L", "i", "k", "e">>, <<"R", "e", "p", "l", "y">>,
    <<"R", "e", "p", "o", "s", "t">>, <<"S", "h", "a", "r", "e">>,
    <<"F", "o", "l", "l", "o", "w">>, <<"M", "o", "r", "e">>,
    <<"<fun>">>, <<"<ji>", "<kan>">>, <<"<byou>">>, <<"<nichi>">>,
    <<"<fun>", "<mae>">>, <<"<ji>", "<kan>", "<mae>">>, <<"<byou>", "<mae>">>,
    <<"<nichi>", "<mae>">>,
    <<"m", "i", "n">>, <<"h", "o", "u", "r">>, <<"s", "e", "c">>,
    <<"d", "a", "y">>, <<"a", "g", "o">> }

\* number of leading digits
RECURSIVE LeadDigits(_)
LeadDigits(s) ==
    IF Len(s) > 0 /\ s[1] \in Digit THEN 1 + LeadDigits(Tail(s)) ELSE 0

RECURSIVE DropSpaces(_)
DropSpaces(s) == IF Len(s) > 0 /\ s[1] = " " THEN DropSpaces(Tail(s)) ELSE s

\* ^\d+(\,\d+)*$  or  ^\d+[kK]$|^\d+\.\d+[kK]$
CounterPattern(t) ==
    \/ /\ Len(t) > 0
       /\ Without(t, Digit \cup {","}) = <<>>
       /\ t[1] \in Digit /\ t[Len(t)] \in Digit
       /\ ~Contains(t, <<",", ",">>)
    \/ /\ Len(t) > 1
       /\ t[Len(t)] \in {"k", "K"}
       /\ LET body == SubSeq(t, 1, Len(t) - 1)
          IN /\ body[1] \in Digit /\ body[Len(body)] \in Digit
             /\ Without(body, Digit) \in {<<>>, <<".">>}

\* the sixteen relative-time patterns: digits, then a unit (with an optional
\* plural s and an optional "ago" for the English units, "<mae>" for the others)
TimePattern(t) ==
    LET n == LeadDigits(t)
        rest == SubSeq(t, n + 1, Len(t))
        unit == DropSpaces(rest)
        en == {<<"m", "i", "n">>, <<"h", "o", "u", "r">>, <<"d", "a", "y">>,
               <<"s", "e", "c">>}
        jp == {<<"<fun>">>, <<"<ji>", "<kan>">>, <<"<nichi>">>, <<"<byou>">>}
    IN /\ n > 0
       /\ \/ rest \in jp
          \/ \E u \in jp : rest = u \o <<"<mae>">>
          \/ \E u \in en :
                /\ StartsWith(unit, u)
                /\ LET a == SubSeq(unit, Len(u) + 1, Len(unit))
                       b == IF Len(a) > 0 /\ a[1] = "s" THEN Tail(a) ELSE a
                   IN b = <<>> \/ DropSpaces(b) = <<"a", "g", "o">>

\* ThreadsScraper._is_ui_element_text
IsUiElementText(text) ==
    \/ Len(text) < 5
    \/ CounterPattern(text)
    \/ \E u \in ui_texts : Contains(text, u)
    \/ TimePattern(text)

----------------------------------------------------------------------------
(* The page: the post containers a scan can meet *)

ann == <<"a", "n", "n">>
bob == <<"b", "o", "b">>

\* two texts that agree on their first 30 characters only
T30a == Rep("x", 30) \o <<"a">>
T30b == Rep("x", 30) \o <<"b">>
\* two texts that agree on their first 50 characters (and differ after them)
T50c == Rep("z", 50) \o <<"c">>
T50d == Rep("z", 50) \o <<"d">>
Hello == <<"h", "e", "l", "l", "o", "!">>
\* UI chrome: a relative time and a counter
Chrome3h == <<"3", " ", "h", "o", "u", "r", "s">>
Chrome12 == <<"1", "2">>

L10 == <<"1", "0">>
L600 == <<"6", "0", "0">>
L1200 == <<"1", ",", "2", "0", "0">>
L1p2K == <<"1", ".", "2", "K">>
L2man == <<"2", "<man>">>

\* A container as the selectors see it (None: no such element).  username, text, like_text and
\* has_images are what the username block, _extract_post_text, the first
\* span.x17qophe and _has_images yield in extract_posts_from_search; user_els,
\* text_groups, like_groups and has_media are the element texts the selector
\* lists of extract_posts find, in selector order.
Container(u, t, l, img) ==
    [username |-> u, text |-> t, like_text |-> l, has_images |-> img,
     user_els |-> <<u>>,
     text_groups |-> <<<<t>>>>,
     like_groups |-> IF l = None THEN <<>> ELSE <<<<l>>>>,
     has_media |-> img]

Containers == {
    Container(ann, T30a, L600, FALSE),
    Container(ann, T30b, L1p2K, FALSE),
    Container(ann, Hello, L10, FALSE),
    Container(bob, T30a, L1200, FALSE),
    Container(bob, T50c, None, FALSE),
    Container(bob, T50d, L2man, TRUE),
    \* chrome next to the text, a too short user name before the real one,
    \* a zero counter before the real one
    [username |-> bob, text |-> Hello, like_text |-> L600, has_images |-> FALSE,
     user_els |-> <<<<"b">>, bob>>,
     text_groups |-> <<<<Chrome3h, Chrome12>>, <<Chrome12, Hello, T50c>>>>,
     like_groups |-> <<<<<<"0">>>>, <<L2man, L600>>>>,
     has_media |-> FALSE] }

----------------------------------------------------------------------------
(* extract_posts_from_search *)

\* faulty variant: the id built from the whole text instead of its first 30 characters
ContainerIdFullText(username, post_text) == username \o <<":">> \o post_text

\* container_id = f"{username}:{post_text[:30]}"
ContainerId(username, post_text) == username \o <<":">> \o Take(post_text, 30)

\* faulty variant: the media test left out
ImageAcceptedUnchecked(exclude, has_images, debug) == TRUE

\* if not exclude_image_posts or not has_images or debug_mode
ImageAccepted(exclude, has_images, debug) == ~exclude \/ ~has_images \/ debug

\* faulty variant: the threshold test against zero instead of min_likes
LikesAcceptedAnyCount(likes, minimum) == likes >= 0

\* if likes >= min_likes
LikesAccepted(likes, minimum) == likes >= minimum

\* if len(posts) >= max_posts: break
SearchLimitReached(ps, limit) == Len(ps) >= limit

\* the `target` argument; search_keyword passes the empty string
SearchTarget == <<>>

\* One iteration of `for i, container in enumerate(containers)`:
\* the new posts, the new local_post_ids and whether the loop breaks.
SearchBody(ps, ids, c, limit, minimum, exclude, debug) ==
    LET container_id == ContainerId(c.username, c.text)
        likes == ExtractLikes(c.like_text)
        added == /\ container_id \notin ids
                 /\ ImageAccepted(exclude, c.has_images, debug)
                 /\ LikesAccepted(likes, minimum)
        ps2 == IF added THEN Append(ps, <<c.username, c.text, likes, SearchTarget>>)
               ELSE ps
    IN [posts |-> ps2,
        ids |-> IF added THEN ids \cup {container_id} ELSE ids,
        stop |-> added /\ SearchLimitReached(ps2, limit),
        log |-> IF container_id \in ids THEN "skip_duplicate"
                ELSE IF ~ImageAccepted(exclude, c.has_images, debug) THEN "skip_image"
                ELSE IF ~LikesAccepted(likes, minimum) THEN "skip_likes"
                ELSE "added"]

SearchFns == {"extract_posts_from_search", "search_keyword"}

\* _scroll_to_bottom(count): `for i in range(count)` scrolls in every
\* iteration and never looks for the sentinel.  at_end: the page shows the
\* sentinel on entry; ends_after = k > 0: it comes up after the k-th scroll.
\* Yields the sentinel's presence afterwards and the scrolls made with it
\* on the page.
ScrollToBottom(count, at_end, ends_after) ==
    [end |-> at_end \/ ends_after \in 1..count,
     late |-> IF at_end THEN count
              ELSE IF ends_after \in 1..count THEN count - ends_after
              ELSE 0]

\* navigate_to_search_page, _wait_for_page_load, _scroll_to_bottom(count=10)
\* and _get_post_elements: on failure (navigation refused, or a driver
\* exception caught by the outer handler) the still empty list is returned.
SearchNavigate(ok, ends_after) ==
    /\ exFn \in SearchFns /\ exPc = "start"
    /\ IF ok
       THEN LET s == ScrollToBottom(10, end_of_feed, ends_after)
            IN /\ exPc' = "scan"
               /\ end_of_feed' = s.end
               /\ late_scrolls' = late_scrolls + s.late
               /\ UNCHANGED exResult
       ELSE /\ exPc' = "done" /\ exResult' = posts
            /\ UNCHANGED <<end_of_feed, late_scrolls>>
    /\ UNCHANGED <<exFn, max_posts, min_likes, exclude_image_posts, debug_mode,
                   posts, local_post_ids, attempt_count, posts_found_this_round,
                   selIdx, scanned, rounds, exLog, visits, notEx>>

\* the next container of the list is c
SearchContainer(c) ==
    /\ exFn \in SearchFns /\ exPc = "scan"
    /\ scanned < MaxContainers
    /\ LET r == SearchBody(posts, local_post_ids, c, max_posts, min_likes,
                           exclude_image_posts, debug_mode)
       IN /\ posts' = r.posts
          /\ local_post_ids' = r.ids
          /\ exLog' = exLog \cup {r.log}
          /\ IF r.stop THEN exPc' = "done" /\ exResult' = r.posts
                       ELSE UNCHANGED <<exPc, exResult>>
    /\ scanned' = scanned + 1
    /\ UNCHANGED <<exFn, max_posts, min_likes, exclude_image_posts, debug_mode,
                   attempt_count, posts_found_this_round, selIdx, rounds,
                   end_of_feed, late_scrolls, visits, notEx>>

\* the list of containers is exhausted: return posts
SearchEnd ==
    /\ exFn \in SearchFns /\ exPc = "scan"
    /\ exPc' = "done" /\ exResult' = posts
    /\ UNCHANGED <<exFn, max_posts, min_likes, exclude_image_posts, debug_mode,
                   posts, local_post_ids, attempt_count, posts_found_this_round,
                   selIdx, scanned, rounds, exLog, end_of_feed, late_scrolls,
                   visits, notEx>>

----------------------------------------------------------------------------
(* extract_posts *)

max_attempts == 10

\* container_selectors has five entries
NumContainerSelectors == 5

\* `post_ids = set()` is executed for every container, immediately before the
\* membership test, so the test never finds the container's id
AlreadyProcessed(c) == LET post_ids == {} IN c \in post_ids

\* first element text with 2 < len < 30, or None
RECURSIVE TimelineUsername(_)
TimelineUsername(els) ==
    IF Len(els) = 0 THEN None
    ELSE IF Len(els[1]) > 2 /\ Len(els[1]) < 30 THEN els[1]
    ELSE TimelineUsername(Tail(els))

\* the longest element text of one selector that is longer than 5 characters
\* and is not UI chrome (the first of them when several are longest), or ""
RECURSIVE BestText(_, _)
BestText(els, best) ==
    IF Len(els) = 0 THEN best
    ELSE LET content == els[1]
         IN IF /\ Len(content) > 5
               /\ ~IsUiElementText(content)
               /\ Len(content) > Len(best)
            THEN BestText(Tail(els), content)
            ELSE BestText(Tail(els), best)

\* the first selector with a non-empty best text decides, or None
RECURSIVE TimelineText(_)
TimelineText(groups) ==
    IF Len(groups) = 0 THEN None
    ELSE LET best == BestText(groups[1], <<>>)
         IN IF best # <<>> THEN best ELSE TimelineText(Tail(groups))

\* within one selector the first element that matches like_pattern sets likes
RECURSIVE GroupLikes(_, _)
GroupLikes(els, likes) ==
    IF Len(els) = 0 THEN likes
    ELSE IF LikePattern(els[1]) THEN TimelineLikeValue(els[1])
    ELSE GroupLikes(Tail(els), likes)

\* selectors are tried until one leaves likes > 0
RECURSIVE TimelineLikes(_, _)
TimelineLikes(groups, likes) ==
    IF Len(groups) = 0 THEN likes
    ELSE LET l == GroupLikes(groups[1], likes)
         IN IF l > 0 THEN l ELSE TimelineLikes(Tail(groups), l)

\* the duplicate check against the posts collected so far
IsDuplicate(ps, username, post_text) ==
    \E k \in 1..Len(ps) :
        /\ ps[k][1] = username
        /\ \/ Take(ps[k][2], 50) = Take(post_text, 50)
           \/ ps[k][2] = post_text

\* One iteration of `for container in post_containers`: the new posts and
\* whether the container was added.
TimelineBody(ps, c, exclude) ==
    LET username == TimelineUsername(c.user_els)
        post_text == TimelineText(c.text_groups)
        likes == TimelineLikes(c.like_groups, 0)
        added == /\ ~AlreadyProcessed(c)
                 /\ ~(exclude /\ c.has_media)
                 /\ username # None /\ post_text # None
                 /\ username # post_text
                 /\ ~IsDuplicate(ps, username, post_text)
    IN [posts |-> IF added THEN Append(ps, <<username, post_text, likes>>) ELSE ps,
        added |-> added]

\* while len(posts) < max_posts and attempt_count < max_attempts
WhileCondition(ps, limit, attempts) == Len(ps) < limit /\ attempts < max_attempts

\* the wait for the page and the unguarded readyState script: a driver
\* exception there is caught by the outer handler, which returns []
TimelineStart(ok) ==
    /\ exFn = "extract_posts" /\ exPc = "start"
    /\ IF ok THEN exPc' = "while" /\ UNCHANGED exResult
             ELSE exPc' = "done" /\ exResult' = <<>>
    /\ UNCHANGED <<exFn, max_posts, min_likes, exclude_image_posts, debug_mode,
                   posts, local_post_ids, attempt_count, posts_found_this_round,
                   selIdx, scanned, rounds, exLog, end_of_feed, late_scrolls,
                   visits, notEx>>

\* what the page and the driver do during the scrolling of one iteration:
\* the sentinel comes up after the ends_after-th scroll (0: it does not),
\* _progressive_scroll counts new_posts_added new articles, or the driver
\* raises inside _progressive_scroll, which has no handler of its own
ScrollOutcomes == [ends_after : {0, 1, 8}, new_posts_added : {0, 1}, raises : BOOLEAN]

\* _progressive_scroll(total_scrolls): every iteration scrolls first and
\* looks for the sentinel afterwards; when new_posts_added == 0 the caller
\* adds _force_scroll_to_bottom(), which does not look for it at all.
ProgressiveScroll(total_scrolls, at_end, s) ==
    LET end == at_end \/ s.ends_after \in 1..total_scrolls
    IN [end |-> end,
        late |-> (IF at_end THEN 1 ELSE 0)
                 + (IF s.new_posts_added = 0 /\ end THEN 1 ELSE 0)]

\* the loop test holds: scroll (`if attempt_count % 4 == 0`), then start
\* querying the container selectors; attempt_count is not assigned anywhere
\* in the loop.  A driver exception while scrolling ends in the outer
\* handler, which returns [].  horizon: the iterations explored.
TimelineRound(horizon, s) ==
    /\ exFn = "extract_posts" /\ exPc = "while"
    /\ WhileCondition(posts, max_posts, attempt_count)
    /\ rounds < horizon
    /\ rounds' = rounds + 1
    /\ IF attempt_count % 4 = 0 /\ s.raises
       THEN /\ exPc' = "done" /\ exResult' = <<>>
            /\ UNCHANGED <<posts_found_this_round, selIdx, scanned,
                           end_of_feed, late_scrolls>>
       ELSE /\ exPc' = "round"
            /\ posts_found_this_round' = FALSE
            /\ selIdx' = 1
            /\ scanned' = 0
            /\ IF attempt_count % 4 = 0
               THEN LET p == ProgressiveScroll(8, end_of_feed, s)
                    IN /\ end_of_feed' = p.end
                       /\ late_scrolls' = late_scrolls + p.late
               ELSE UNCHANGED <<end_of_feed, late_scrolls>>
            /\ UNCHANGED exResult
    /\ UNCHANGED <<exFn, max_posts, min_likes, exclude_image_posts, debug_mode,
                   posts, local_post_ids, attempt_count, exLog, visits, notEx>>

\* the next container found by the current selector is c; unless the id
\* test skips it, its fields are extracted (traced: the extraction is
\* entered in visits, a second one of the same container as (c, 2))
TimelineContainer(c, traced) ==
    /\ exFn = "extract_posts" /\ exPc = "round"
    /\ scanned < MaxContainers
    /\ LET r == TimelineBody(posts, c, exclude_image_posts)
       IN /\ posts' = r.posts
          /\ posts_found_this_round' = (posts_found_this_round \/ r.added)
          /\ exLog' = IF r.added THEN exLog \cup {"added"} ELSE exLog
    /\ visits' = IF traced /\ ~AlreadyProcessed(c)
                 THEN visits \cup {<<c, IF <<c, 1>> \in visits THEN 2 ELSE 1>>}
                 ELSE visits
    /\ scanned' = scanned + 1
    /\ UNCHANGED <<exFn, exPc, max_posts, min_likes, exclude_image_posts,
                   debug_mode, local_post_ids, attempt_count, selIdx, rounds,
                   end_of_feed, late_scrolls, exResult, notEx>>

\* the containers of the current selector are exhausted: leave the selector
\* loop if a post was found, else try the next selector (the XPath attempt
\* after the last one extracts nothing)
TimelineSelectorEnd ==
    /\ exFn = "extract_posts" /\ exPc = "round"
    /\ IF posts_found_this_round \/ selIdx = NumContainerSelectors
       THEN exPc' = "while" /\ UNCHANGED selIdx
       ELSE selIdx' = selIdx + 1 /\ UNCHANGED exPc
    /\ UNCHANGED <<exFn, max_posts, min_likes, exclude_image_posts, debug_mode,
                   posts, local_post_ids, attempt_count, posts_found_this_round,
                   scanned, rounds, exLog, end_of_feed, late_scrolls, visits,
                   exResult, notEx>>

\* the loop test fails: the code after the loop.  Its refresh branch uses
\* the undefined name processed_post_ids, so it ends in the outer handler,
\* which returns [].
TimelineReturn ==
    /\ exFn = "extract_posts" /\ exPc = "while"
    /\ ~WhileCondition(posts, max_posts, attempt_count)
    /\ exPc' = "done"
    /\ exResult' = IF attempt_count >= 3 /\ attempt_count % 5 = 0
                   THEN <<>> ELSE posts
    /\ UNCHANGED <<exFn, max_posts, min_likes, exclude_image_posts, debug_mode,
                   posts, local_post_ids, attempt_count, posts_found_this_round,
                   selIdx, scanned, rounds, exLog, end_of_feed, late_scrolls,
                   visits, notEx>>

----------------------------------------------------------------------------
(* The extraction runs *)

\* search_keyword's default min_likes
DefaultMinLikes == 500

ExInitWith(fns, limits, sentinel) ==
    /\ exFn \in fns
    /\ exPc = "start"
    /\ max_posts \in limits
    /\ min_likes \in IF exFn = "extract_posts" THEN {0} ELSE {0, DefaultMinLikes}
    /\ exclude_image_posts \in IF exFn = "search_keyword" THEN {TRUE} ELSE BOOLEAN
    /\ debug_mode \in IF exFn = "extract_posts_from_search" THEN BOOLEAN ELSE {FALSE}
    /\ posts = <<>>
    /\ local_post_ids = {}
    /\ attempt_count = 0
    /\ posts_found_this_round = FALSE
    /\ selIdx = 1
    /\ scanned = 0
    /\ rounds = 0
    /\ exLog = {}
    /\ exResult = <<>>
    /\ end_of_feed \in sentinel
    /\ late_scrolls = 0
    /\ visits = {}

\* the runs on pages that do not show the sentinel
ExInit == ExInitWith(SearchFns \cup {"extract_posts"}, 0..MaxPosts, {FALSE})

ExNext ==
    \/ \E ok \in BOOLEAN : SearchNavigate(ok, 0)
    \/ \E c \in Containers : SearchContainer(c)
    \/ SearchEnd
    \/ \E ok \in BOOLEAN : TimelineStart(ok)
    \/ \E s \in {o \in ScrollOutcomes : o.ends_after = 0} :
          TimelineRound(MaxRounds, s)
    \/ \E c \in Containers : TimelineContainer(c, FALSE)
    \/ TimelineSelectorEnd
    \/ TimelineReturn

\* the runs on pages whose feed ends: the sentinel is on the page from the
\* start or comes up while the run scrolls, and the page holds one post
\* that can be accepted, one that cannot and, among the search results,
\* one whose text is "3 hours"
FeedInit == ExInitWith({"extract_posts_from_search", "extract_posts"}, {1, 2}, BOOLEAN)

FeedNext ==
    \/ \E ok \in BOOLEAN, ends_after \in {0, 1, 10} : SearchNavigate(ok, ends_after)
    \/ \E c \in {k \in Containers : k.text \in {T50c, T50d}}
                 \cup {Container(ann, Chrome3h, L600, FALSE)} : SearchContainer(c)
    \/ SearchEnd
    \/ \E ok \in BOOLEAN : TimelineStart(ok)
    \/ \E s \in ScrollOutcomes : TimelineRound(max_attempts + 1, s)
    \/ \E c \in {k \in Containers : k.text \in {T50c, T50d}} :
          TimelineContainer(c, TRUE)
    \/ TimelineSelectorEnd
    \/ TimelineReturn

----------------------------------------------------------------------------
(* Claims about the extraction *)

SameKey(r1, r2, n) == r1[1] = r2[1] /\ Take(r1[2], n) = Take(r2[2], n)

\* C1: within one extraction call no two returned records share a dedup key:
\* (username, first 30 characters of the text) for extract_posts_from_search
\* and search_keyword, (username, first 50 characters) for extract_posts.
C1_UniqueDedupKeys ==
    exPc = "done" =>
        \A i, j \in 1..Len(exResult) :
            i # j => ~SameKey(exResult[i], exResult[j],
                              IF exFn \in SearchFns THEN 30 ELSE 50)

\* a search scan that returned two records and met a repeated key
C1_Witness ==
    /\ exFn \in SearchFns /\ exPc = "done"
    /\ Len(exResult) >= 2
    /\ "skip_duplicate" \in exLog

\* C2: every record returned by extract_posts_from_search, and so by
\* search_keyword, has a like count >= min_likes.
C2_MinLikes ==
    (exPc = "done" /\ exFn \in SearchFns) =>
        \A i \in 1..Len(exResult) : exResult[i][3] >= min_likes

\* search_keyword with the default threshold returned two records and
\* dropped a post for its like count
C2_Witness ==
    /\ exFn = "search_keyword" /\ exPc = "done"
    /\ min_likes = DefaultMinLikes
    /\ Len(exResult) = 2
    /\ "skip_likes" \in exLog

\* C3: an extraction call never returns more than max_posts records.
C3_AtMostMaxPosts ==
    exPc = "done" => Len(exResult) <= max_posts

\* C17: extract_posts stays within its attempt budget: also on a page that
\* never yields max_posts acceptable posts, the scroll-and-extract loop runs
\* at most max_attempts (10) iterations.
C17_WithinBudget ==
    exFn = "extract_posts" => rounds <= max_attempts

\* C18: once the page shows the end-of-feed sentinel, no further scroll
\* attempt is made, neither by the loop of extract_posts nor by the
\* scrolling phase of extract_posts_from_search.
C18_NoScrollAfterEnd ==
    late_scrolls = 0

\* the record was taken from a container in which _has_images found media
\* (no container of the page shares its user name and text with another)
MediaDetected(rec) ==
    \E c \in Containers :
        c.has_images /\ c.username = rec[1] /\ c.text = rec[2]

\* C21 as stated: with exclude_image_posts true, extract_posts_from_search
\* never returns a post in which media was detected, for every value of its
\* other parameters.
C21_NoMediaReturned ==
    (exFn = "extract_posts_from_search" /\ exclude_image_posts) =>
        \A i \in 1..Len(posts) : ~MediaDetected(posts[i])

\* C21 (amended): with exclude_image_posts true and debug_mode false,
\* extract_posts_from_search never returns a post in which media was
\* detected; such a post is skipped as a whole.
C21_NoMediaUnlessDebug ==
    (exFn = "extract_posts_from_search" /\ exclude_image_posts /\ ~debug_mode) =>
        \A i \in 1..Len(posts) : ~MediaDetected(posts[i])

\* a scan without debug_mode that skipped a media post and returned another
C21_Witness ==
    /\ exFn = "extract_posts_from_search" /\ exPc = "done"
    /\ exclude_image_posts /\ ~debug_mode
    /\ "skip_image" \in exLog
    /\ Len(exResult) >= 1

\* C22: UI chrome is discarded unconditionally: no record collected by
\* extract_posts or extract_posts_from_search has a text that
\* _is_ui_element_text classifies as UI chrome.
C22_NoChromeReturned ==
    \A i \in 1..Len(posts) : ~IsUiElementText(posts[i][2])

\* C26: in extract_posts the set of processed container ids lives as long
\* as the call: a container whose id was recorded earlier in the call is
\* skipped when it is met again, its fields are not extracted a second time.
C26_ProcessedOnce ==
    \A v \in visits : v[2] = 1

----------------------------------------------------------------------------
(* call_openai_api *)

\* What the completion service does with one request: it raises (timeout,
\* transport error), answers with a payload that cannot be decoded (no
\* choices, no content key), or answers with a content, which may be null,
\* empty, or a text.
GatewayRaises == "<raises>"
GatewayMalformed == "<malformed>"
EmptyText == <<>>
GatewayFailures == {GatewayRaises, GatewayMalformed}

\* the text the service writes for a prompt
Reply(prompt) == <<"reply", prompt>>

GatewayOutcomes(prompt) ==
    {[kind |-> GatewayRaises], [kind |-> GatewayMalformed],
     [kind |-> "content", content |-> None],
     [kind |-> "content", content |-> EmptyText],
     [kind |-> "content", content |-> Reply(prompt)]}

new_gen_models == {
    <<"o", "1">>, <<"o", "3">>,
    <<"g", "p", "t", "-", "4", "o">>,
    <<"g", "p", "t", "-", "4", "-", "1", "1", "0", "6", "-",
      "p", "r", "e", "v", "i", "e", "w">> }

\* model identifiers of the configuration
ModelIds == {
    <<"o", "1">>,
    <<"o", "3", "-", "m", "i", "n", "i">>,
    <<"g", "p", "t", "-", "4", "o">>,
    <<"c", "h", "a", "t", "g", "p", "t", "-", "4", "o", "-",
      "l", "a", "t", "e", "s", "t">>,
    <<"g", "p", "t", "-", "4", "-", "1", "1", "0", "6", "-",
      "p", "r", "e", "v", "i", "e", "w">>,
    <<"g", "p", "t", "-", "4">>,
    <<"g", "p", "t", "-", "4", ".", "1", "-", "2", "0", "2", "5", "-",
      "0", "4", "-", "1", "4">>,
    <<"g", "p", "t", "-", "3", ".", "5", "-", "t", "u", "r", "b", "o">>,
    <<>> }

\* os.getenv("OPENAI_MODEL", "o1")
DefaultModel == <<"o", "1">>

\* faulty variant: the markers matched as prefixes of the identifier
IsNewGenPrefix(use_model) == \E m \in new_gen_models : StartsWith(use_model, m)

\* is_new_gen = any(model_id in use_model for model_id in new_gen_models)
IsNewGen(use_model) == \E m \in new_gen_models : Contains(use_model, m)

\* use_model = custom_model if custom_model else model
UseModel(global_model, custom_model) ==
    IF custom_model # None /\ custom_model # <<>> THEN custom_model
    ELSE global_model

\* the keyword arguments of openai.ChatCompletion.create
Request(use_model, messages) ==
    IF IsNewGen(use_model)
    THEN [model |-> use_model, messages |-> messages,
          max_completion_tokens |-> 4000]
    ELSE [model |-> use_model, messages |-> messages,
          max_tokens |-> 4000, temperature |-> "0.7"]

\* test_api.py: the markers of its own copy of call_openai_api
test_api_new_gen_models == new_gen_models \cup { <<"g", "p", "t", "-", "4", ".", "1">> }

\* test_api.py: is_new_gen = any(model_id in use_model for model_id in new_gen_models)
TestApiIsNewGen(use_model) ==
    \E m \in test_api_new_gen_models : Contains(use_model, m)

\* test_api.py: the keyword arguments of openai.ChatCompletion.create
TestApiRequest(use_model, messages) ==
    IF TestApiIsNewGen(use_model)
    THEN [model |-> use_model, messages |-> messages,
          max_completion_tokens |-> 4000]
    ELSE [model |-> use_model, messages |-> messages,
          max_tokens |-> 4000, temperature |-> "0.7"]

\* faulty variant: the handler lets the exceptions of the completion call through
CallResultPropagating(outcome) ==
    IF outcome.kind \in GatewayFailures
    THEN [kind |-> "raise", value |-> None]
    ELSE [kind |-> "return", value |-> outcome.content]

\* how the call ends: `return response.choices[0].message["content"]`, or
\* `except Exception: return None`
CallResult(outcome) ==
    IF outcome.kind \in GatewayFailures
    THEN [kind |-> "return", value |-> None]
    ELSE [kind |-> "return", value |-> outcome.content]

\* call_openai_api(messages, custom_model): the request sent and how the
\* call ends, when the service does `outcome`
call_openai_api(global_model, messages, custom_model, outcome) ==
    [request |-> Request(UseModel(global_model, custom_model), messages),
     outcome |-> outcome.kind,
     result |-> CallResult(outcome)]

\* a caller invokes call_openai_api directly
CallOpenaiApi(custom_model, outcome) ==
    /\ Len(apiCalls) < MaxCalls
    /\ apiCalls' = Append(apiCalls,
                          call_openai_api(model, "messages", custom_model, outcome))
    /\ UNCHANGED <<model, notGw>>

GwInit ==
    /\ model \in {DefaultModel,
                  <<"g", "p", "t", "-", "3", ".", "5", "-", "t", "u", "r", "b", "o">>}
    /\ apiCalls = <<>>

GwNext ==
    \E custom_model \in ModelIds \cup {None} :
        \E outcome \in GatewayOutcomes("messages") :
            CallOpenaiApi(custom_model, outcome)

----------------------------------------------------------------------------
(* The stages: analyze_post, create_template, generate_final_post *)

Truthy(v) == v # None /\ v # EmptyText

\* faulty variant: only None ends the chain: `if analysis is None`
PyNotOnlyNone(v) == v = None

\* `not analysis`, `not template`
PyNot(v) == ~Truthy(v)

\* ANALYTICS_PROMPT.format(refers=post_text)
AnalyticsPrompt(post_text) == <<"ANALYTICS_PROMPT", post_text>>
\* TEMPLATE_PROMPT.format(analysis=analysis, refers=post_text)
TemplatePrompt(an, post_text) == <<"TEMPLATE_PROMPT", an, post_text>>
\* FINAL_POST_PROMPT.format(template=template_str, target=target_str)
FinalPostPrompt(tpl, target) == <<"FINAL_POST_PROMPT", tpl, target>>

\* the try/except of a stage function around its call of call_openai_api:
\* [call |-> how call_openai_api ended, ret |-> how the stage function ended]
Stage(global_model, prompt, outcome) ==
    LET c == call_openai_api(global_model, prompt, None, outcome)
    IN [outcome |-> c.outcome,
        call |-> c.result,
        ret |-> IF c.result.kind = "raise"
                THEN [kind |-> "return", value |-> None]
                ELSE c.result]

analyze_post(global_model, post_text, outcome) ==
    Stage(global_model, AnalyticsPrompt(post_text), outcome)

create_template(global_model, an, post_text, outcome) ==
    Stage(global_model, TemplatePrompt(an, post_text), outcome)

generate_final_post(global_model, tpl, target, outcome) ==
    Stage(global_model, FinalPostPrompt(tpl, target), outcome)

\* what the log shows of a gateway call
CallLog(st) ==
    [outcome |-> st.outcome,
     callKind |-> st.call.kind, callNone |-> st.call.value = None,
     retKind |-> st.ret.kind, retNone |-> st.ret.value = None]

NoCall == [outcome |-> "none", callKind |-> "return", callNone |-> FALSE,
           retKind |-> "return", retNone |-> FALSE]

----------------------------------------------------------------------------
(* process_posts and _process_post *)

PostIdx == 1..Len(inPosts)
TargetIdx == 1..Len(inTargets)

Pending == [st |-> "pending", value |-> None]
Running == [st |-> "running", value |-> None]
Finished(v) == [st |-> "done", value |-> v]
Raised == [st |-> "raised", value |-> None]

\* tasks a pool of the executor is running
ActivePosts == {p \in PostIdx : ppc[p] \in {"analyze", "template", "fanout"}}
ActiveGens(p) == {t \in TargetIdx : gen[p][t].st = "running"}

\* a worker of the outer pool takes the oldest queued post
StartPost(p) ==
    /\ prPc = "running"
    /\ ppc[p] = "queued"
    /\ \A q \in PostIdx : q < p => ppc[q] # "queued"
    /\ Cardinality(ActivePosts) < MAX_WORKERS
    /\ ppc' = [ppc EXCEPT ![p] = "analyze"]
    /\ UNCHANGED <<MAX_WORKERS, inPosts, inTargets, analysis, template, gen,
                   postResults, drained, final_posts, prPc,
                   final_posts_by_target, lastCall, notPl>>

\* analysis = analyze_post(post_text, username); if not analysis: return results
AnalyzePost(p, outcome) ==
    /\ ppc[p] = "analyze"
    /\ LET st == analyze_post(model, inPosts[p][2], outcome)
       IN /\ lastCall' = CallLog(st)
          /\ IF st.ret.kind = "raise"
             THEN ppc' = [ppc EXCEPT ![p] = "raised"] /\ UNCHANGED analysis
             ELSE /\ analysis' = [analysis EXCEPT ![p] = st.ret.value]
                  /\ ppc' = [ppc EXCEPT ![p] =
                                IF PyNot(st.ret.value) THEN "done" ELSE "template"]
    /\ UNCHANGED <<MAX_WORKERS, inPosts, inTargets, template, gen, postResults,
                   drained, final_posts, prPc, final_posts_by_target,
                   notPl>>

\* template = create_template(analysis, post_text, username);
\* if not template: return results; else the inner pool gets one task per target
CreateTemplate(p, outcome) ==
    /\ ppc[p] = "template"
    /\ LET st == create_template(model, analysis[p], inPosts[p][2], outcome)
       IN /\ lastCall' = CallLog(st)
          /\ IF st.ret.kind = "raise"
             THEN ppc' = [ppc EXCEPT ![p] = "raised"] /\ UNCHANGED template
             ELSE /\ template' = [template EXCEPT ![p] = st.ret.value]
                  /\ ppc' = [ppc EXCEPT ![p] =
                                IF PyNot(st.ret.value) THEN "done" ELSE "fanout"]
    /\ UNCHANGED <<MAX_WORKERS, inPosts, inTargets, analysis, gen, postResults,
                   drained, final_posts, prPc, final_posts_by_target,
                   notPl>>

\* faulty variant: the target tasks submitted to the pool of process_posts,
\* whose workers are the ones that wait for them
InnerPoolShared(p) ==
    Cardinality(ActivePosts)
      + Cardinality({<<q, t>> \in PostIdx \X TargetIdx : t \in ActiveGens(q)})
        < MAX_WORKERS

\* `with ThreadPoolExecutor(max_workers=MAX_WORKERS) as executor` inside
\* _process_post: every post has a pool of its own, and a worker of it is free
InnerPoolFree(p) == Cardinality(ActiveGens(p)) < MAX_WORKERS

\* a worker of the post's inner pool takes the oldest pending target
StartGenerate(p, t) ==
    /\ ppc[p] = "fanout"
    /\ gen[p][t].st = "pending"
    /\ \A u \in TargetIdx : u < t => gen[p][u].st # "pending"
    /\ InnerPoolFree(p)
    /\ gen' = [gen EXCEPT ![p][t] = Running]
    /\ UNCHANGED <<MAX_WORKERS, inPosts, inTargets, ppc, analysis, template,
                   postResults, drained, final_posts, prPc,
                   final_posts_by_target, lastCall, notPl>>

\* _generate_post_for_target(target, template, username) returns
FinishGenerate(p, t, outcome) ==
    /\ ppc[p] = "fanout"
    /\ gen[p][t].st = "running"
    /\ LET st == generate_final_post(model, template[p], inTargets[t], outcome)
       IN /\ lastCall' = CallLog(st)
          /\ gen' = [gen EXCEPT ![p][t] =
                        IF st.ret.kind = "raise" THEN Raised
                        ELSE Finished(st.ret.value)]
    /\ UNCHANGED <<MAX_WORKERS, inPosts, inTargets, ppc, analysis, template,
                   postResults, drained, final_posts, prPc,
                   final_posts_by_target, notPl>>

\* faulty variant: the results of the inner pool paired with the targets in
\* reverse order
PairedResultReversed(p, k) == gen[p][Len(inTargets) + 1 - k]

\* zip(targets, executor.map(gen_post_for_target, targets)): the k-th target
\* is paired with the result of the k-th task
PairedResult(p, k) == gen[p][k]

\* faulty variant: the results collected in the reverse order of targets
RECURSIVE ZipResultsLastFirst(_, _)
ZipResultsLastFirst(p, k) ==
    IF k > Len(inTargets) THEN <<>>
    ELSE ZipResultsLastFirst(p, k + 1)
         \o (IF Truthy(PairedResult(p, k).value)
             THEN << <<inPosts[p][1], inTargets[k], PairedResult(p, k).value>> >>
             ELSE <<>>)

\* the loop over zip(...): (username, target, final_post) for every truthy
\* final_post, in the order of targets
RECURSIVE ZipResults(_, _)
ZipResults(p, k) ==
    IF k > Len(inTargets) THEN <<>>
    ELSE (IF Truthy(PairedResult(p, k).value)
          THEN << <<inPosts[p][1], inTargets[k], PairedResult(p, k).value>> >>
          ELSE <<>>) \o ZipResults(p, k + 1)

\* every task of the inner pool is finished: the with block ends and
\* _process_post returns results (or re-raises what a task raised)
ReturnResults(p) ==
    /\ ppc[p] = "fanout"
    /\ \A t \in TargetIdx : gen[p][t].st \in {"done", "raised"}
    /\ IF \E t \in TargetIdx : gen[p][t].st = "raised"
       THEN ppc' = [ppc EXCEPT ![p] = "raised"] /\ UNCHANGED postResults
       ELSE /\ ppc' = [ppc EXCEPT ![p] = "done"]
            /\ postResults' = [postResults EXCEPT ![p] = ZipResults(p, 1)]
    /\ UNCHANGED <<MAX_WORKERS, inPosts, inTargets, analysis, template, gen,
                   drained, final_posts, prPc, final_posts_by_target,
                   lastCall, notPl>>

\* for post_results in results_iter: final_posts.extend(post_results);
\* the results arrive in the order of posts
DrainPost ==
    /\ prPc = "running"
    /\ drained < Len(inPosts)
    /\ ppc[drained + 1] \in {"done", "raised"}
    /\ IF ppc[drained + 1] = "raised"
       THEN prPc' = "raised" /\ UNCHANGED <<final_posts, drained>>
       ELSE /\ final_posts' = final_posts \o postResults[drained + 1]
            /\ drained' = drained + 1
            /\ UNCHANGED prPc
    /\ UNCHANGED <<MAX_WORKERS, inPosts, inTargets, ppc, analysis, template,
                   gen, postResults, final_posts_by_target, lastCall,
                   notPl>>

\* return final_posts
ReturnFinalPosts ==
    /\ prPc = "running"
    /\ drained = Len(inPosts)
    /\ prPc' = "returned"
    /\ UNCHANGED <<MAX_WORKERS, inPosts, inTargets, ppc, analysis, template,
                   gen, postResults, drained, final_posts,
                   final_posts_by_target, lastCall, notPl>>

----------------------------------------------------------------------------
(* process_csv_file: grouping the results by target *)

\* faulty variant: the results filed under their first field, the reference author
RECURSIVE GroupByRef(_, _)
GroupByRef(results, dict) ==
    IF Len(results) = 0 THEN dict
    ELSE LET r == results[1]
             ref == r[1]
             old == IF ref \in DOMAIN dict THEN dict[ref] ELSE <<>>
         IN GroupByRef(Tail(results),
                [k \in DOMAIN dict \cup {ref} |->
                    IF k = ref THEN Append(old, r) ELSE dict[k]])

\* for ref, tgt, post in final_posts:
\*     final_posts_by_target.setdefault(tgt, []).append((ref, tgt, post))
RECURSIVE GroupByTarget(_, _)
GroupByTarget(results, dict) ==
    IF Len(results) = 0 THEN dict
    ELSE LET r == results[1]
             tgt == r[2]
             old == IF tgt \in DOMAIN dict THEN dict[tgt] ELSE <<>>
         IN GroupByTarget(Tail(results),
                [k \in DOMAIN dict \cup {tgt} |->
                    IF k = tgt THEN Append(old, r) ELSE dict[k]])

EmptyDict == [k \in {} |-> <<>>]

\* if not final_posts: return []
CsvNoResults ==
    /\ prPc = "returned"
    /\ final_posts = <<>>
    /\ prPc' = "csv_empty"
    /\ UNCHANGED <<MAX_WORKERS, inPosts, inTargets, ppc, analysis, template,
                   gen, postResults, drained, final_posts,
                   final_posts_by_target, lastCall, notPl>>

\* the dictionary final_posts_by_target is built
CsvGroup ==
    /\ prPc = "returned"
    /\ final_posts # <<>>
    /\ final_posts_by_target' = GroupByTarget(final_posts, EmptyDict)
    /\ prPc' = "grouped"
    /\ UNCHANGED <<MAX_WORKERS, inPosts, inTargets, ppc, analysis, template,
                   gen, postResults, drained, final_posts, lastCall,
                   notPl>>

----------------------------------------------------------------------------
(* The pipeline runs *)

\* the authors of the input posts: the first two posts have the same author
Usernames == <<"ann", "ann", "bob", "cat", "dan">>
\* the targets a configuration can name
TargetNames == <<"tA", "tB">>

\* the i-th post of the input: (username, post_text, likes)
Post(i) == <<Usernames[i], <<"text", i>>, 500 + i>>

PlInit ==
    /\ MAX_WORKERS \in 1..MaxWorkers
    /\ \E n \in 0..MaxIn : inPosts = [i \in 1..n |-> Post(i)]
    /\ \E m \in 0..Len(TargetNames) : inTargets = [j \in 1..m |-> TargetNames[j]]
    /\ ppc = [p \in PostIdx |-> "queued"]
    /\ analysis = [p \in PostIdx |-> None]
    /\ template = [p \in PostIdx |-> None]
    /\ gen = [p \in PostIdx |-> [t \in TargetIdx |-> Pending]]
    /\ postResults = [p \in PostIdx |-> <<>>]
    /\ drained = 0
    /\ final_posts = <<>>
    /\ prPc = "running"
    /\ final_posts_by_target = EmptyDict
    /\ lastCall = NoCall

PlNext ==
    \/ \E p \in PostIdx : StartPost(p)
    \/ \E p \in PostIdx :
         \E outcome \in GatewayOutcomes(AnalyticsPrompt(inPosts[p][2])) :
            AnalyzePost(p, outcome)
    \/ \E p \in PostIdx :
         \E outcome \in GatewayOutcomes(TemplatePrompt(analysis[p], inPosts[p][2])) :
            CreateTemplate(p, outcome)
    \/ \E p \in PostIdx, t \in TargetIdx : StartGenerate(p, t)
    \/ \E p \in PostIdx, t \in TargetIdx :
         \E outcome \in GatewayOutcomes(FinalPostPrompt(template[p], inTargets[t])) :
            FinishGenerate(p, t, outcome)
    \/ \E p \in PostIdx : ReturnResults(p)
    \/ DrainPost
    \/ ReturnFinalPosts
    \/ CsvNoResults
    \/ CsvGroup

----------------------------------------------------------------------------
(* save_final_posts_by_account *)

\* accounts_by_target[target]: the accounts of a target, in configuration order
AccountsByTarget(target) == SelectSeq(accounts, LAMBDA a : a.target = target)

\* posts_per_account = total_posts // len(target_accounts), at least 1 when
\* there is a post
PostsPerAccount(total_posts, n_accounts) ==
    LET q == total_posts \div n_accounts
    IN IF q = 0 /\ total_posts > 0 THEN 1 ELSE q

\* Python seq[a:b] for 0 <= a, 0 <= b
Slice(seq, a, b) == SubSeq(seq, a + 1, Min(b, Len(seq)))

\* the slice given to the i-th account (i from 0) by the first loop
Chunk(shuffled, i, per_account) ==
    LET total_posts == Len(shuffled)
        start_idx == i * per_account
        end_idx == Min(start_idx + per_account, total_posts)
    IN IF start_idx < total_posts THEN Slice(shuffled, start_idx, end_idx) ELSE <<>>

\* faulty variant: the remainder taken one position too far
RemainingPostsOffByOne(shuffled, n_accounts, per_account) ==
    Slice(shuffled, n_accounts * per_account + 1, Len(shuffled))

\* remaining_posts = shuffled_posts[len(target_accounts) * posts_per_account:]
RemainingPosts(shuffled, n_accounts, per_account) ==
    Slice(shuffled, n_accounts * per_account, Len(shuffled))

\* the dictionary after the first loop: a later account with the same
\* username replaces the entry of an earlier one
RECURSIVE ChunkDict(_, _, _, _, _)
ChunkDict(dict, target_accounts, shuffled, per_account, i) ==
    IF i >= Len(target_accounts) THEN dict
    ELSE LET username == target_accounts[i + 1].username
         IN ChunkDict([u \in DOMAIN dict \cup {username} |->
                          IF u = username THEN Chunk(shuffled, i, per_account)
                          ELSE dict[u]],
                      target_accounts, shuffled, per_account, i + 1)

\* the second loop: the k-th remaining post is appended to the list of
\* random.choice(account_usernames), here the account number choice[k]
RECURSIVE AssignRemaining(_, _, _, _, _)
AssignRemaining(dict, target_accounts, remaining, choice, k) ==
    IF k > Len(remaining) THEN dict
    ELSE LET random_username == target_accounts[choice[k]].username
         IN AssignRemaining([dict EXCEPT ![random_username] =
                                Append(@, remaining[k])],
                            target_accounts, remaining, choice, k + 1)

\* posts_for_accounts of one target, for the permutation perm drawn by
\* random.sample and the draws choice of random.choice
Distribute(target_posts, target_accounts, perm, choice) ==
    LET per_account == PostsPerAccount(Len(target_posts), Len(target_accounts))
        shuffled == [i \in 1..Len(target_posts) |-> target_posts[perm[i]]]
        remaining == RemainingPosts(shuffled, Len(target_accounts), per_account)
    IN AssignRemaining(
           ChunkDict([u \in {} |-> <<>>], target_accounts, shuffled, per_account, 0),
           target_accounts, remaining, choice, 1)

\* number of posts the second loop assigns
RemainingCount(total_posts, n_accounts) ==
    LET r == total_posts - n_accounts * PostsPerAccount(total_posts, n_accounts)
    IN IF r > 0 THEN r ELSE 0

CurrentTarget == target_order[spT]

\* the three `continue` tests at the head of the loop over the targets
TargetSkipped(target_name) ==
    \/ generated_posts[target_name] = <<>>
    \/ AccountsByTarget(target_name) = <<>>
    \/ target_name \notin targets_dict

\* A datetime is a number of whole seconds since the start of day 0 and a
\* number of microseconds.
\* datetime + timedelta(minutes=m)
PlusMinutes(t, m) == [sec |-> t.sec + m * 60, usec |-> t.usec]

\* strftime('%Y-%m-%d'): the date, here the number of the day
DateStr(t) == <<t.sec \div 86400>>

\* strftime('%H%M%S'): hour, minute and second
TimeStr(t) == <<(t.sec % 86400) \div 3600, (t.sec % 3600) \div 60, t.sec % 60>>

\* faulty variant: the format without the seconds, '%Y-%m-%dT%H:%M:00'
StrftimeToMinute(t) == DateStr(t) \o <<"T">> \o <<TimeStr(t)[1], TimeStr(t)[2], 0>>

\* strftime('%Y-%m-%dT%H:%M:%S'): the microseconds are not written
Strftime(t) == DateStr(t) \o <<"T">> \o TimeStr(t)

\* the step between two posts of one account, in minutes
StepMinutes == 15

\* faulty variant: every post of the account at the base time
ScheduledTimeNoStep(base_time, hour_counter) == base_time

\* scheduled_time = base_time + timedelta(minutes=hour_counter * 15)
ScheduledTime(base_time, hour_counter) ==
    PlusMinutes(base_time, hour_counter * StepMinutes)

\* username_filename: the user name, the date and the time (to the second)
\* of the invocation
Filename(username, t) == <<"threads_posts", username>> \o DateStr(t) \o TimeStr(t)

\* new_data: row k (from 0) carries the text of the k-th post of the account
\* and its scheduled time as a string
Rows(username, account_posts, base_time) ==
    [k \in 1..Len(account_posts) |->
        [username |-> username, content |-> account_posts[k][3],
         scheduledTime |-> Strftime(ScheduledTime(base_time, k - 1))]]

\* What building and writing one file can do: succeed, raise before the
\* file is opened, or raise after `written` rows reached the file.
WriteOutcomes ==
    {[kind |-> "ok", written |-> 0], [kind |-> "raises_before", written |-> 0]}
    \cup {[kind |-> "raises_midway", written |-> n] : n \in 0..(MaxResults + 1)}

\* the file at the final path after the write
Written(rows, outcome) ==
    IF outcome.kind = "ok" THEN rows ELSE SubSeq(rows, 1, outcome.written)

\* faulty variant: the exception of a write leaves the loop
LoopStopsOnError(kind) == kind \in {"ok", "no_posts"}

\* the try/except around the write is inside the loop over the accounts:
\* whatever the write did, the loop goes on with the next account
LoopContinues(kind) == TRUE

spArgs == <<accounts, target_order, targets_dict>>

\* if not generated_posts: return []; otherwise the loop over the targets starts
SpStart ==
    /\ spPc = "start"
    /\ IF target_order = <<>> THEN spPc' = "done" ELSE spPc' = "target"
    /\ UNCHANGED <<spArgs, generated_posts, spT, posts_for_accounts, spAcc, files,
                   saved_files, now, write_log, reinvoked, earlier_files, notSp>>

\* the current target has no posts, no accounts or no configuration
SpSkipTarget ==
    /\ spPc = "target" /\ spT <= Len(target_order)
    /\ TargetSkipped(CurrentTarget)
    /\ spT' = spT + 1
    /\ UNCHANGED <<spArgs, generated_posts, spPc, posts_for_accounts, spAcc, files,
                   saved_files, now, write_log, reinvoked, earlier_files, notSp>>

\* the posts of the current target are shuffled and distributed; perm is
\* the order random.sample draws, choice the draws of random.choice
SpDistribute ==
    /\ spPc = "target" /\ spT <= Len(target_order)
    /\ ~TargetSkipped(CurrentTarget)
    /\ LET target_posts == generated_posts[CurrentTarget]
           target_accounts == AccountsByTarget(CurrentTarget)
       IN \E perm \in Permutations(1..Len(target_posts)) :
            \E choice \in [1..RemainingCount(Len(target_posts), Len(target_accounts))
                           -> 1..Len(target_accounts)] :
               posts_for_accounts' =
                   Distribute(target_posts, target_accounts, perm, choice)
    /\ spPc' = "save"
    /\ spAcc' = 1
    /\ UNCHANGED <<spArgs, generated_posts, spT, files, saved_files, now,
                   write_log, reinvoked, earlier_files, notSp>>

\* one iteration of the loop that saves the accounts of the current target;
\* outcome: what the write of the file does
SpSaveAccount(outcome) ==
    /\ spPc = "save" /\ spAcc <= Len(AccountsByTarget(CurrentTarget))
    /\ LET username == AccountsByTarget(CurrentTarget)[spAcc].username
           account_posts == IF username \in DOMAIN posts_for_accounts
                            THEN posts_for_accounts[username] ELSE <<>>
           username_filename == Filename(username, now)
           rows == Rows(username, account_posts, now)
           kind == IF account_posts = <<>> THEN "no_posts" ELSE outcome.kind
       IN /\ account_posts = <<>> => outcome.kind = "ok"
          /\ outcome.kind = "raises_midway" => outcome.written < Len(rows)
          /\ files' = IF kind \in {"ok", "raises_midway"}
                      THEN [f \in DOMAIN files \cup {username_filename} |->
                               IF f = username_filename THEN Written(rows, outcome)
                               ELSE files[f]]
                      ELSE files
          /\ saved_files' = IF kind = "ok" THEN Append(saved_files, username_filename)
                            ELSE saved_files
          /\ write_log' = Append(write_log,
                 [target |-> CurrentTarget, username |-> username, kind |-> kind,
                  file |-> username_filename, rows |-> Len(rows)])
          /\ IF LoopContinues(kind)
             THEN spAcc' = spAcc + 1 /\ UNCHANGED spPc
             ELSE spPc' = "raised" /\ UNCHANGED spAcc
    /\ UNCHANGED <<spArgs, generated_posts, spT, posts_for_accounts, now,
                   reinvoked, earlier_files, notSp>>

\* every account of the current target was handled: next target
SpNextTarget ==
    /\ spPc = "save" /\ spAcc > Len(AccountsByTarget(CurrentTarget))
    /\ spPc' = "target"
    /\ spT' = spT + 1
    /\ UNCHANGED <<spArgs, generated_posts, posts_for_accounts, spAcc, files,
                   saved_files, now, write_log, reinvoked, earlier_files, notSp>>

\* return saved_files
SpReturn ==
    /\ spPc = "target" /\ spT > Len(target_order)
    /\ spPc' = "done"
    /\ UNCHANGED <<spArgs, generated_posts, spT, posts_for_accounts, spAcc, files,
                   saved_files, now, write_log, reinvoked, earlier_files, notSp>>

\* the results of a later run: other texts for the same targets
NewResults(results) ==
    [i \in 1..Len(results) |->
        <<results[i][1], results[i][2], <<"later", results[i][3]>>>>]

\* The caller invokes the function again with a new result set and the same
\* configuration, `elapsed` whole seconds after the first invocation.
SpReinvoke(elapsed) ==
    /\ spPc = "done" /\ ~reinvoked
    /\ reinvoked' = TRUE
    /\ earlier_files' = files
    /\ now' = [sec |-> now.sec + elapsed, usec |-> now.usec]
    /\ generated_posts' = [t \in DOMAIN generated_posts |->
                              NewResults(generated_posts[t])]
    /\ spPc' = "start"
    /\ spT' = 1
    /\ posts_for_accounts' = [u \in {} |-> <<>>]
    /\ spAcc' = 1
    /\ saved_files' = <<>>
    /\ write_log' = <<>>
    /\ UNCHANGED <<spArgs, files, notSp>>

AccountNames == <<"acc1", "acc2", "acc3", "acc4", "acc5">>

\* the i-th result of a target: (reference author, target, text)
Result(target, i) == <<"ann", target, <<"content", target, i>>>>

\* run start times: 00:00:59 and 23:50:59 of day 0, with and without a
\* fraction of a second
StartTimes == {[sec |-> s, usec |-> u] : s \in {59, 85859}, u \in {0, 250000}}

\* The configurations explored: up to most_accounts accounts, all of target tA
\* except possibly the last one; the second account may reuse the username
\* of the first.  generated_posts has no key, the key tA, or the keys tA and
\* tB (one result); tA may lack its configuration.
SpInitWith(most_accounts, most_results, start_times) ==
    /\ \E n \in 0..most_accounts, dup \in BOOLEAN, other \in BOOLEAN :
          accounts = [i \in 1..n |->
              [username |-> IF dup /\ i = 2 THEN AccountNames[1] ELSE AccountNames[i],
               target |-> IF other /\ i = n THEN "tB" ELSE "tA"]]
    /\ \E keys \in 0..2 : target_order = SubSeq(<<"tA", "tB">>, 1, keys)
    /\ \E P \in 0..most_results :
          generated_posts = [t \in {"tA", "tB"} |->
              IF t = "tA" THEN [i \in 1..P |-> Result(t, i)]
              ELSE <<Result(t, 1)>>]
    /\ targets_dict \in {{"tA", "tB"}, {"tB"}}
    /\ spPc = "start"
    /\ spT = 1
    /\ posts_for_accounts = [u \in {} |-> <<>>]
    /\ spAcc = 1
    /\ files = [f \in {} |-> <<>>]
    /\ saved_files = <<>>
    /\ now \in start_times
    /\ write_log = <<>>
    /\ reinvoked = FALSE
    /\ earlier_files = [f \in {} |-> <<>>]

\* the distribution is explored with up to MaxAccounts accounts and
\* MaxResults results, at one start time and with writes that succeed
SpInit == SpInitWith(MaxAccounts, MaxResults, {[sec |-> 85859, usec |-> 250000]})

SpNext ==
    \/ SpStart
    \/ SpSkipTarget
    \/ SpDistribute
    \/ \E outcome \in {w \in WriteOutcomes : w.kind = "ok"} : SpSaveAccount(outcome)
    \/ SpNextTarget
    \/ SpReturn

\* the writing is explored with up to MaxWriters accounts and MaxSaved
\* results, every start time, every outcome of a write, and a second
\* invocation in the same second or a later one
SaveInit == SpInitWith(MaxWriters, MaxSaved, StartTimes)

SaveNext ==
    \/ SpStart
    \/ SpSkipTarget
    \/ SpDistribute
    \/ \E outcome \in WriteOutcomes : SpSaveAccount(outcome)
    \/ SpNextTarget
    \/ SpReturn
    \/ \E elapsed \in {0, 1} : SpReinvoke(elapsed)

SpIdle ==
    /\ accounts = <<>> /\ generated_posts = <<>> /\ target_order = <<>>
    /\ targets_dict = {} /\ spPc = "idle" /\ spT = 1
    /\ posts_for_accounts = <<>> /\ spAcc = 1 /\ files = <<>>
    /\ saved_files = <<>> /\ now = [sec |-> 0, usec |-> 0]
    /\ write_log = <<>> /\ reinvoked = FALSE /\ earlier_files = <<>>

----------------------------------------------------------------------------
(* run_threads_scraper and scrape_threads_by_keywords: the scraper sessions *)

SessionFns == {"run_threads_scraper", "scrape_threads_by_keywords"}

\* `if not login_success: return None`
LoginNotChecked(result) == TRUE

LoginPassed(result) == result = "True"

\* scraper.close() of the finally clause, on the session opened last
CloseNotCalled(ss) == ss

Close(ss) == [ss EXCEPT ![Len(ss)] = @ + 1]

\* Control leaves the try statement: the finally clause closes the session.
\* run_threads_scraper returns `result`; scrape_threads_by_keywords goes on
\* with the next account.
SeLeave(result) ==
    /\ sessions' = Close(sessions)
    /\ IF seFn = "run_threads_scraper"
       THEN sePc' = "done" /\ seResult' = result /\ UNCHANGED seAcc
       ELSE sePc' = "open" /\ seAcc' = seAcc + 1 /\ UNCHANGED seResult

\* scraper = ThreadsScraper(...).  In run_threads_scraper the call is inside
\* the try statement: when it raises, no session exists, the handler's
\* `return None` is followed by the finally clause, whose `scraper.close()`
\* meets the unbound name, and that error leaves the function.  In
\* scrape_threads_by_keywords the call precedes the try statement, so the
\* exception leaves the function; an account without targets is passed over.
SeOpen(outcome) ==
    /\ sePc = "open" /\ seAcc <= Len(seAccounts)
    /\ IF seFn = "scrape_threads_by_keywords" /\ ~seAccounts[seAcc].has_targets
       THEN /\ outcome = "ok"
            /\ seAcc' = seAcc + 1
            /\ UNCHANGED <<sePc, sessions, seResult>>
       ELSE IF outcome = "ok"
       THEN /\ sessions' = Append(sessions, 0)
            /\ sePc' = "login"
            /\ UNCHANGED <<seAcc, seResult>>
       ELSE /\ sePc' = "done" /\ seResult' = "raised"
            /\ UNCHANGED <<seAcc, sessions>>
    /\ all_scraped_posts' = 0
    /\ logged_in' = FALSE
    /\ UNCHANGED <<seFn, seAccounts, login_result, searches_left, extractions,
                   csv_written, navigations, notSe>>

\* The credentials test and the call of login.  run_threads_scraper returns
\* None when a credential is missing, when login returns False and when it
\* raises; scrape_threads_by_keywords logs the failure and goes on.
SeLogin(outcome) ==
    /\ sePc = "login"
    /\ LET cur == seAccounts[seAcc]
           called == cur.credentials
           result == IF called THEN outcome ELSE "not_called"
           go_on == IF seFn = "run_threads_scraper"
                    THEN called /\ result # "raised" /\ LoginPassed(result)
                    ELSE TRUE
       IN /\ ~called => outcome = "True"
          /\ login_result' = result
          /\ IF go_on
             THEN /\ sePc' = "search"
                  /\ searches_left' = cur.keywords
                  /\ UNCHANGED <<seAcc, sessions, seResult>>
             ELSE /\ SeLeave("None")
                  /\ UNCHANGED searches_left
    /\ UNCHANGED <<seFn, seAccounts, extractions, all_scraped_posts,
                   csv_written, logged_in, navigations, notSe>>

\* One call of search_keyword (extract_posts_from_search): it returns no
\* post, returns posts, or an exception reaches the handler of the caller.
SeSearch(outcome) ==
    /\ sePc = "search" /\ searches_left > 0
    /\ extractions' = extractions \cup {login_result}
    /\ IF outcome = "raises"
       THEN /\ SeLeave("None")
            /\ UNCHANGED <<searches_left, all_scraped_posts>>
       ELSE /\ searches_left' = searches_left - 1
            /\ all_scraped_posts' =
                  all_scraped_posts + (IF outcome = "found" THEN 1 ELSE 0)
            /\ UNCHANGED <<sePc, seAcc, sessions, seResult>>
    /\ UNCHANGED <<seFn, seAccounts, login_result, csv_written, logged_in,
                   navigations, notSe>>

\* The keywords are exhausted: save_cookies (run_threads_scraper only; it
\* swallows its exceptions), then the CSV is written when posts were
\* collected.  A failing write ends in the handler.
SeSave(outcome) ==
    /\ sePc = "search" /\ searches_left = 0
    /\ IF all_scraped_posts > 0
       THEN IF outcome = "ok"
            THEN csv_written' = TRUE /\ SeLeave("csv")
            ELSE UNCHANGED csv_written /\ SeLeave("None")
       ELSE /\ outcome = "ok"
            /\ UNCHANGED csv_written
            /\ SeLeave("None")
    /\ UNCHANGED <<seFn, seAccounts, login_result, searches_left, extractions,
                   all_scraped_posts, logged_in, navigations, notSe>>

\* scrape_threads_by_keywords: the loop over the accounts is exhausted
SeReturn ==
    /\ seFn = "scrape_threads_by_keywords"
    /\ sePc = "open" /\ seAcc > Len(seAccounts)
    /\ sePc' = "done" /\ seResult' = "data_dir"
    /\ UNCHANGED <<seFn, seAccounts, seAcc, login_result, searches_left,
                   sessions, extractions, all_scraped_posts, csv_written,
                   logged_in, navigations, notSe>>

\* navigate_to_threads, called on the open scraper after the login step:
\* `if self.logged_in and "threads.net" in current_url and "login" not in
\* current_url: return True` is the shortcut; otherwise the home page is
\* fetched.  login assigns nothing to self.logged_in, and neither does any
\* other method.
NavigateToThreads(on_threads_page) ==
    /\ sePc = "search"
    /\ navigations' = navigations \cup
          {[authenticated |-> login_result = "True",
            on_threads_page |-> on_threads_page,
            shortcut |-> logged_in /\ on_threads_page]}
    /\ UNCHANGED <<seFn, sePc, seAccounts, seAcc, login_result, searches_left,
                   sessions, extractions, all_scraped_posts, csv_written,
                   logged_in, seResult, notSe>>

\* run_threads_scraper opens one session, with the credentials of the
\* environment and the keywords of the targets that have accounts;
\* scrape_threads_by_keywords opens one per account that was given targets.
SeInit ==
    /\ seFn \in SessionFns
    /\ sePc = "open"
    /\ seAccounts \in UNION {[1..n -> [credentials : BOOLEAN,
                                       has_targets : BOOLEAN,
                                       keywords : 0..MaxKeywords]] :
                             n \in 1..MaxSessions}
    /\ seFn = "run_threads_scraper" =>
          Len(seAccounts) = 1 /\ seAccounts[1].has_targets
    /\ \A i \in 1..Len(seAccounts) :
          ~seAccounts[i].has_targets => seAccounts[i].keywords = 0
    /\ seAcc = 1
    /\ login_result = "not_called"
    /\ searches_left = 0
    /\ sessions = <<>>
    /\ extractions = {}
    /\ all_scraped_posts = 0
    /\ csv_written = FALSE
    /\ logged_in = FALSE
    /\ navigations = {}
    /\ seResult = "unset"

SeNext ==
    \/ \E outcome \in {"ok", "raises"} : SeOpen(outcome)
    \/ \E outcome \in {"True", "False", "raised"} : SeLogin(outcome)
    \/ \E outcome \in {"none", "found", "raises"} : SeSearch(outcome)
    \/ \E outcome \in {"ok", "raises"} : SeSave(outcome)
    \/ \E on_threads_page \in BOOLEAN : NavigateToThreads(on_threads_page)
    \/ SeReturn

SeIdle ==
    /\ seFn = "none" /\ sePc = "idle" /\ seAccounts = <<>> /\ seAcc = 1
    /\ login_result = "not_called" /\ searches_left = 0 /\ sessions = <<>>
    /\ extractions = {} /\ all_scraped_posts = 0 /\ csv_written = FALSE
    /\ logged_in = FALSE /\ navigations = {}
    /\ seResult = "unset"

----------------------------------------------------------------------------
(* Specifications: one per subsystem; the others stay idle *)

ExIdle ==
    /\ exFn = "none" /\ exPc = "idle"
    /\ max_posts = 0 /\ min_likes = 0
    /\ exclude_image_posts = TRUE /\ debug_mode = FALSE
    /\ posts = <<>> /\ local_post_ids = {} /\ attempt_count = 0
    /\ posts_found_this_round = FALSE /\ selIdx = 1 /\ scanned = 0
    /\ rounds = 0 /\ exLog = {} /\ exResult = <<>>
    /\ end_of_feed = FALSE /\ late_scrolls = 0 /\ visits = {}

GwIdle == model = DefaultModel /\ apiCalls = <<>>

PlIdle ==
    /\ MAX_WORKERS = 5
    /\ inPosts = <<>> /\ inTargets = <<>>
    /\ ppc = <<>> /\ analysis = <<>> /\ template = <<>> /\ gen = <<>>
    /\ postResults = <<>> /\ drained = 0 /\ final_posts = <<>>
    /\ prPc = "idle" /\ final_posts_by_target = EmptyDict
    /\ lastCall = NoCall

InitExtract == ExInit /\ GwIdle /\ PlIdle /\ SpIdle /\ SeIdle
SpecExtract == InitExtract /\ [][ExNext]_vars

InitFeed == FeedInit /\ GwIdle /\ PlIdle /\ SpIdle /\ SeIdle
SpecFeed == InitFeed /\ [][FeedNext]_vars

InitSession == ExIdle /\ GwIdle /\ PlIdle /\ SpIdle /\ SeInit
SpecSession == InitSession /\ [][SeNext]_vars

InitGateway == ExIdle /\ GwInit /\ PlIdle /\ SpIdle /\ SeIdle
SpecGateway == InitGateway /\ [][GwNext]_vars

InitPipeline == ExIdle /\ GwIdle /\ PlInit /\ SpIdle /\ SeIdle
SpecPipeline == InitPipeline /\ [][PlNext]_vars

\* The steps of the pipeline when a gateway call either raises or returns
\* a reply: the two ways a call ends that the control flow of _process_post
\* tells apart (a stage yields None or a text).
PlFairNext ==
    \/ \E p \in PostIdx : StartPost(p)
    \/ \E p \in PostIdx :
         \E outcome \in {[kind |-> GatewayRaises],
                          [kind |-> "content",
                           content |-> Reply(AnalyticsPrompt(inPosts[p][2]))]} :
            AnalyzePost(p, outcome)
    \/ \E p \in PostIdx :
         \E outcome \in {[kind |-> GatewayRaises],
                          [kind |-> "content",
                           content |-> Reply(TemplatePrompt(analysis[p],
                                                            inPosts[p][2]))]} :
            CreateTemplate(p, outcome)
    \/ \E p \in PostIdx, t \in TargetIdx : StartGenerate(p, t)
    \/ \E p \in PostIdx, t \in TargetIdx :
         \E outcome \in {[kind |-> GatewayRaises],
                          [kind |-> "content",
                           content |-> Reply(FinalPostPrompt(template[p],
                                                             inTargets[t]))]} :
            FinishGenerate(p, t, outcome)
    \/ \E p \in PostIdx : ReturnResults(p)
    \/ DrainPost
    \/ ReturnFinalPosts
    \/ CsvNoResults
    \/ CsvGroup

\* The pipeline with its scheduling: every gateway call that was made
\* eventually returns or raises, a free worker of a pool eventually takes the
\* oldest queued task, and the thread that called process_posts eventually
\* takes the next result of executor.map.  Every step of PlFairNext advances
\* one of them, so weak fairness of PlFairNext says no more than that.
SpecPipelineFair ==
    InitPipeline /\ [][PlFairNext]_vars /\ WF_vars(PlFairNext)

InitPartition == ExIdle /\ GwIdle /\ PlIdle /\ SpInit /\ SeIdle
SpecPartition == InitPartition /\ [][SpNext]_vars

InitSave == ExIdle /\ GwIdle /\ PlIdle /\ SaveInit /\ SeIdle
SpecSave == InitSave /\ [][SaveNext]_vars

----------------------------------------------------------------------------
(* Claims about the model dispatch *)

HasMarker(id) == \E m \in new_gen_models : Contains(id, m)

\* C4: the dispatch of call_openai_api is total and deterministic: every call
\* sends exactly one request shape, the same for the same identifier; an
\* identifier that contains a new-generation marker gets max_completion_tokens
\* and no temperature, every other one gets max_tokens and temperature 0.7.
C4_Dispatch ==
    \A i \in 1..Len(apiCalls) :
        LET r == apiCalls[i].request
        IN /\ HasMarker(r.model) =>
                DOMAIN r = {"model", "messages", "max_completion_tokens"}
           /\ ~HasMarker(r.model) =>
                /\ DOMAIN r = {"model", "messages", "max_tokens", "temperature"}
                /\ r.temperature = "0.7"
           /\ \A j \in 1..Len(apiCalls) :
                apiCalls[j].request.model = r.model =>
                    DOMAIN apiCalls[j].request = DOMAIN r

\* a new-generation call whose marker is not at the start of the
\* identifier, and a legacy call
C4_Witness ==
    \E i, j \in 1..Len(apiCalls) :
        /\ HasMarker(apiCalls[i].request.model)
        /\ \A m \in new_gen_models : ~StartsWith(apiCalls[i].request.model, m)
        /\ "temperature" \notin DOMAIN apiCalls[i].request
        /\ "temperature" \in DOMAIN apiCalls[j].request

\* C28: the call_openai_api of test_api.py dispatches as the one of
\* chatgpt_integration.py does: for the model of every call made, both
\* classify it the same way and send the same set of request parameters.
C28_SameDispatch ==
    \A i \in 1..Len(apiCalls) :
        LET use_model == apiCalls[i].request.model IN
        /\ TestApiIsNewGen(use_model) = IsNewGen(use_model)
        /\ DOMAIN TestApiRequest(use_model, "messages") = DOMAIN apiCalls[i].request


----------------------------------------------------------------------------
(* Claims about the pipeline *)

Returned == {"returned", "csv_empty", "grouped"}

\* the stages of post p for target t all returned a non-empty value
PairOk(p, t) ==
    /\ Truthy(analysis[p]) /\ Truthy(template[p])
    /\ gen[p][t].st = "done" /\ Truthy(gen[p][t].value)

\* the post text a generated text was derived from (through the template
\* and the final prompt), or None
SourceText(text) ==
    IF Len(text) = 2 /\ Len(text[2]) = 3 /\ Len(text[2][2]) = 2
       /\ Len(text[2][2][2]) = 3
    THEN text[2][2][2][3] ELSE None

\* the results in the output that come from post p and name target t
ResultsOf(p, t) ==
    {k \in 1..Len(final_posts) :
        /\ final_posts[k][1] = inPosts[p][1]
        /\ final_posts[k][2] = inTargets[t]
        /\ SourceText(final_posts[k][3]) = inPosts[p][2]}

AllSucceeded == \A p \in PostIdx : \A t \in TargetIdx : PairOk(p, t)

\* C7: when every stage call succeeds, process_posts over n posts and m
\* targets returns n*m results, one per (post, target) pair, and the grouping
\* of process_csv_file has one group per target, each with the n results of
\* that target.
C7_AllPairsGrouped ==
    /\ (prPc \in Returned /\ AllSucceeded) =>
          /\ Len(final_posts) = Len(inPosts) * Len(inTargets)
          /\ \A p \in PostIdx : \A t \in TargetIdx :
                Cardinality(ResultsOf(p, t)) = 1
    /\ (prPc = "grouped" /\ AllSucceeded) =>
          /\ DOMAIN final_posts_by_target = {inTargets[t] : t \in TargetIdx}
          /\ \A tgt \in DOMAIN final_posts_by_target :
                /\ Len(final_posts_by_target[tgt]) = Len(inPosts)
                /\ \A k \in 1..Len(final_posts_by_target[tgt]) :
                      final_posts_by_target[tgt][k][2] = tgt

\* two posts of one author and two targets, every stage succeeded, the four
\* results are grouped
C7_Witness ==
    /\ prPc = "grouped" /\ AllSucceeded
    /\ Len(inPosts) = 2 /\ Len(inTargets) = 2
    /\ Len(final_posts) = 4

\* a post whose analysis or template came back null (None or empty)
FailedEarly(p) ==
    ppc[p] = "done" /\ (~Truthy(analysis[p]) \/ ~Truthy(template[p]))

\* C8: if Analyze or BuildTemplate returns null for a post, process_posts
\* has no result for that post for any target, still has the results of the
\* other posts whose stages succeed, and does not abort.
C8_FailedPostSkipped ==
    /\ prPc # "raised"
    /\ \A p \in PostIdx : ppc[p] # "raised"
    /\ prPc \in Returned =>
          \A p \in PostIdx :
             /\ FailedEarly(p) => \A t \in TargetIdx : ResultsOf(p, t) = {}
             /\ \A t \in TargetIdx : PairOk(p, t) => ResultsOf(p, t) # {}

\* the analysis of the first of two posts failed, the other post gave its
\* two results
C8_Witness ==
    /\ prPc \in Returned
    /\ Len(inPosts) = 2 /\ Len(inTargets) = 2
    /\ ~Truthy(analysis[1])
    /\ Len(final_posts) = 2

\* C9: gateway failures never propagate: call_openai_api returns None for
\* every exception of the completion call or of decoding its answer, the
\* stage functions return None then, and no exception reaches _process_post
\* or process_posts.
C9_FailuresBecomeNone ==
    /\ lastCall.callKind = "return"
    /\ lastCall.retKind = "return"
    /\ lastCall.outcome \in GatewayFailures =>
          lastCall.callNone /\ lastCall.retNone
    /\ \A p \in PostIdx : ppc[p] # "raised"
    /\ prPc # "raised"

\* the completion call of the last stage raised and process_posts returned
C9_Witness ==
    /\ lastCall.outcome = GatewayRaises
    /\ prPc = "returned"
    /\ \E p \in PostIdx : \E t \in TargetIdx : PairOk(p, t)

\* C10: the output of process_posts has a tuple (username, target, text) for
\* exactly the (post, target) pairs whose three stages returned a non-empty
\* value, with the text Generate returned for that post and that target; a
\* null Generate for one target removes that pair only.
C10_ExactlySuccessfulPairs ==
    prPc \in Returned =>
        /\ \A p \in PostIdx : \A t \in TargetIdx :
              IF PairOk(p, t)
              THEN /\ Cardinality(ResultsOf(p, t)) = 1
                   /\ \A k \in ResultsOf(p, t) :
                         final_posts[k][3] = gen[p][t].value
              ELSE ResultsOf(p, t) = {}
        /\ Len(final_posts) =
              Cardinality({pt \in PostIdx \X TargetIdx : PairOk(pt[1], pt[2])})

\* Generate came back null for the first target of a post and the second
\* target of that post is in the output
C10_Witness ==
    /\ prPc \in Returned
    /\ \E p \in PostIdx :
          /\ Len(inTargets) = 2
          /\ gen[p][1].st = "done" /\ ~Truthy(gen[p][1].value)
          /\ PairOk(p, 2) /\ ResultsOf(p, 2) # {}

\* C23: no two results returned by process_posts have the same
\* (source_author, target_name) pair, for input posts with pairwise distinct
\* dedup keys and distinct targets.
C23_UniqueAuthorTarget ==
    prPc \in Returned =>
        \A j, k \in 1..Len(final_posts) :
            j < k => ~(/\ final_posts[j][1] = final_posts[k][1]
                       /\ final_posts[j][2] = final_posts[k][2])

\* the gateway calls in flight: the stage call of every post a worker of the
\* outer pool is analysing or templating, and every running generate task
RECURSIVE InFlight(_)
InFlight(p) ==
    IF p > Len(inPosts) THEN 0
    ELSE (IF ppc[p] \in {"analyze", "template"} THEN 1 ELSE 0)
         + (IF ppc[p] = "fanout" THEN Cardinality(ActiveGens(p)) ELSE 0)
         + InFlight(p + 1)

\* C24: at any moment during process_posts at most MAX_WORKERS gateway calls
\* are in flight.
C24_InFlightBounded ==
    InFlight(1) <= MAX_WORKERS

\* C25: for each post the stages run in order: create_template runs only
\* after analyze_post returned a non-null analysis, the generate tasks run
\* only after create_template returned a non-null template, and after a
\* stage returned null no later stage runs for that post.
C25_StagesInOrder ==
    \A p \in PostIdx :
        /\ ppc[p] \in {"template", "fanout"} => Truthy(analysis[p])
        /\ ppc[p] = "fanout" => Truthy(template[p])
        /\ template[p] # None => Truthy(analysis[p])
        /\ \A t \in TargetIdx :
              gen[p][t].st # "pending" =>
                  Truthy(analysis[p]) /\ Truthy(template[p])

\* process_posts returned; the template of a post came back null after a
\* good analysis and no generate task of that post was started, while
\* another post went through all stages
C25_Witness ==
    /\ prPc = "returned"
    /\ Len(inTargets) = 2
    /\ \E p, q \in PostIdx :
          /\ Truthy(analysis[p]) /\ ~Truthy(template[p]) /\ ppc[p] = "done"
          /\ \A t \in TargetIdx : gen[p][t].st = "pending"
          /\ \A t \in TargetIdx : PairOk(q, t)

\* the position in the input of the post a result was generated from, and
\* the position of its target in the targets list
PostOf(res) == CHOOSE p \in PostIdx : inPosts[p][2] = SourceText(res[3])
TargetOf(res) == CHOOSE t \in TargetIdx : inTargets[t] = res[2]

\* the results of a list are in the order of posts and, within one post, in
\* the order of targets
InInputOrder(results) ==
    \A j, k \in 1..Len(results) :
        j < k => \/ PostOf(results[j]) < PostOf(results[k])
                 \/ /\ PostOf(results[j]) = PostOf(results[k])
                    /\ TargetOf(results[j]) < TargetOf(results[k])

\* C30: process_posts terminates: when every gateway call eventually returns
\* or raises, eventually process_posts has returned (or raised) with every
\* post worker and every target worker finished, whatever the numbers of
\* posts, targets and workers.
C30_Terminates ==
    <>(/\ prPc # "running"
       /\ \A p \in PostIdx :
             /\ ppc[p] \in {"done", "raised"}
             /\ \A t \in TargetIdx : gen[p][t].st # "running")

\* process_posts returned four results for two posts and two targets with
\* one worker per pool
C30_Witness ==
    /\ MAX_WORKERS = 1 /\ Len(inPosts) = 2 /\ Len(inTargets) = 2
    /\ prPc = "returned" /\ Len(final_posts) = 4
    /\ \A p \in PostIdx : ppc[p] = "done"

\* C27: the results of process_posts are ordered by the position of their
\* post in the input and, within one post, by the position of the target,
\* whatever the order in which the workers finish; so are the results every
\* _process_post hands back.
C27_InputOrder ==
    /\ InInputOrder(final_posts)
    /\ \A p \in PostIdx : InInputOrder(postResults[p])

\* the second post handed back its two results while the first post is
\* still waiting for its first target, its second target being finished
C27_Witness ==
    /\ Len(inPosts) = 2 /\ Len(inTargets) = 2
    /\ ppc[2] = "done" /\ Len(postResults[2]) = 2
    /\ ppc[1] = "fanout"
    /\ gen[1][1].st = "running" /\ gen[1][2].st = "done"
    /\ C27_InputOrder

----------------------------------------------------------------------------
(* Claims about the output partitioning *)

\* the accounts of the target being saved and its results
TargetAccounts == AccountsByTarget(CurrentTarget)
TargetPosts == generated_posts[CurrentTarget]

DistinctUsernames(target_accounts) ==
    \A i, j \in 1..Len(target_accounts) :
        target_accounts[i].username = target_accounts[j].username => i = j

\* the distribution of the current target is done, its accounts are distinct
Distributed == spPc = "save" /\ DistinctUsernames(TargetAccounts)

Assigned(username) == posts_for_accounts[username]

Elements(seq) == {seq[k] : k \in 1..Len(seq)}

RECURSIVE SumOfSizes(_)
SumOfSizes(names) ==
    IF names = {} THEN 0
    ELSE LET u == CHOOSE x \in names : TRUE
         IN Len(Assigned(u)) + SumOfSizes(names \ {u})

Floor(P, A) == P \div A
Ceil(P, A) == (P + A - 1) \div A

\* C5: for a target with P >= 1 results and A >= 1 accounts of distinct
\* usernames, after the distribution every account holds floor(P/A) or
\* ceil(P/A) results, whatever the shuffle and the remainder draws were.
C5_FairShares ==
    Distributed =>
        \A u \in DOMAIN posts_for_accounts :
            Len(Assigned(u)) \in {Floor(Len(TargetPosts), Len(TargetAccounts)),
                                  Ceil(Len(TargetPosts), Len(TargetAccounts))}

\* C6: for a target with P results and A >= 1 accounts of distinct
\* usernames, the lists assigned to the accounts are pairwise disjoint, hold
\* no result twice, together hold every one of the P results, and their sizes
\* sum to P.
C6_Complete ==
    Distributed =>
        /\ DOMAIN posts_for_accounts =
               {TargetAccounts[i].username : i \in 1..Len(TargetAccounts)}
        /\ \A u, v \in DOMAIN posts_for_accounts :
               u # v => Elements(Assigned(u)) \cap Elements(Assigned(v)) = {}
        /\ \A u \in DOMAIN posts_for_accounts :
               \A j, k \in 1..Len(Assigned(u)) :
                   Assigned(u)[j] = Assigned(u)[k] => j = k
        /\ UNION {Elements(Assigned(u)) : u \in DOMAIN posts_for_accounts}
               = Elements(TargetPosts)
        /\ SumOfSizes(DOMAIN posts_for_accounts) = Len(TargetPosts)

\* five results over three accounts: two results are left after the chunks
\* and both went to the first account
C6_Witness ==
    /\ Distributed
    /\ Len(TargetPosts) = 5 /\ Len(TargetAccounts) = 3
    /\ Len(Assigned(TargetAccounts[1].username)) = 3
    /\ C6_Complete

----------------------------------------------------------------------------
(* Claims about the scheduling and the writing of the batches *)

\* the entries of write_log that put something at a path
Wrote(e) == e.kind \in {"ok", "raises_midway"}

\* the latest entry of write_log that wrote to file f is number i
LatestWrite(f, i) ==
    /\ i \in 1..Len(write_log)
    /\ write_log[i].file = f /\ Wrote(write_log[i])
    /\ \A j \in (i + 1)..Len(write_log) :
          ~(write_log[j].file = f /\ Wrote(write_log[j]))

\* the files whose latest write succeeded in this invocation
CompleteFiles ==
    {f \in DOMAIN files :
        \E i \in 1..Len(write_log) : LatestWrite(f, i) /\ write_log[i].kind = "ok"}

\* reading a scheduledTime string with the format it was written with
ParseTime(str) ==
    [sec |-> str[1] * 86400 + str[3] * 3600 + str[4] * 60 + str[5], usec |-> 0]

\* C11: in one account's file the k-th row (k = 0, 1, ...) is scheduled at
\* the start time of the run plus k times 15 minutes, so the scheduled times
\* of one account are strictly increasing and no two rows have the same
\* scheduledTime.
C11_StepSchedule ==
    \A f \in CompleteFiles :
        /\ \A k \in 1..Len(files[f]) :
              files[f][k].scheduledTime =
                  Strftime([sec |-> now.sec + (k - 1) * 15 * 60, usec |-> now.usec])
        /\ \A j, k \in 1..Len(files[f]) :
              j < k => ParseTime(files[f][j].scheduledTime).sec
                          < ParseTime(files[f][k].scheduledTime).sec

\* a file of two rows whose second row falls on the next day
C11_Witness ==
    \E f \in CompleteFiles :
        /\ Len(files[f]) = 2
        /\ files[f][1].scheduledTime[1] = 0
        /\ files[f][2].scheduledTime[1] = 1
        /\ C11_StepSchedule

\* the targets of this call that have results, an account and a configuration
ServedTargets ==
    {target_order[i] : i \in {j \in 1..Len(target_order) :
                                ~TargetSkipped(target_order[j])}}

\* the rows of the output directory that carry the text of result r
RowsOf(r) ==
    {fk \in (DOMAIN files) \X (1..MaxResults) :
        fk[2] <= Len(files[fk[1]]) /\ files[fk[1]][fk[2]].content = r[3]}

NoWriteFailed == \A i \in 1..Len(write_log) : write_log[i].kind \in {"ok", "no_posts"}

\* C12: when no write fails, every result passed for a target that has an
\* account and a configuration is one row of exactly one file after the
\* call, for every accounts configuration.
C12_EveryResultOnce ==
    (spPc = "done" /\ NoWriteFailed) =>
        \A t \in ServedTargets :
            \A i \in 1..Len(generated_posts[t]) :
                Cardinality(RowsOf(generated_posts[t][i])) = 1

\* C13: a second invocation never overwrites or changes a file written by
\* the first one, whatever the time between them and the accounts they share.
C13_EarlierFilesUntouched ==
    reinvoked =>
        \A f \in DOMAIN earlier_files :
            f \in DOMAIN files /\ files[f] = earlier_files[f]

\* C14: a file at its final path holds all rows of its batch, in every
\* reachable state, also after a write that failed midway.
C14_NoPartialFile ==
    \A f \in DOMAIN files :
        \A i \in 1..Len(write_log) :
            LatestWrite(f, i) => Len(files[f]) = write_log[i].rows

\* the entries of write_log of target t
EntriesOf(t) == SelectSeq(write_log, LAMBDA e : e.target = t)

RECURSIVE FilesOf(_)
FilesOf(entries) ==
    IF entries = <<>> THEN <<>>
    ELSE <<entries[1].file>> \o FilesOf(Tail(entries))

\* C15: a write that fails does not keep the other accounts and targets from
\* being written (every account of every served target gets its turn and the
\* call returns), and the returned list holds exactly the paths of the writes
\* that succeeded.
C15_FailureIsolated ==
    /\ spPc # "raised"
    /\ spPc = "save" =>
          Len(EntriesOf(CurrentTarget)) = spAcc - 1
    /\ spPc = "done" =>
          \A t \in ServedTargets :
              Len(EntriesOf(t)) = Len(AccountsByTarget(t))
    /\ saved_files = FilesOf(SelectSeq(write_log, LAMBDA e : e.kind = "ok"))

\* the call returned; a write failed and a later write succeeded
C15_Witness ==
    /\ spPc = "done"
    /\ \E i, j \in 1..Len(write_log) :
          /\ i < j
          /\ write_log[i].kind \in {"raises_before", "raises_midway"}
          /\ write_log[j].kind = "ok"
          /\ write_log[i].file # write_log[j].file
    /\ Len(saved_files) = 1

\* C16 as stated: the scheduledTime string parses back to exactly the
\* timestamp assigned to the post, for every start time.
C16_RoundTrip ==
    \A f \in CompleteFiles :
        \A k \in 1..Len(files[f]) :
            ParseTime(files[f][k].scheduledTime) = ScheduledTime(now, k - 1)

\* C16 (amended): the scheduledTime string parses back to the timestamp
\* assigned to the post with its microseconds dropped; it is exactly the
\* assigned timestamp when the start time has no fraction of a second.
C16_RoundTripToSecond ==
    \A f \in CompleteFiles :
        \A k \in 1..Len(files[f]) :
            LET assigned == ScheduledTime(now, k - 1)
                parsed == ParseTime(files[f][k].scheduledTime)
            IN /\ parsed = [sec |-> assigned.sec, usec |-> 0]
               /\ now.usec = 0 => parsed = assigned

\* a file of two rows written by a run that started at a fraction of a second
C16_Witness ==
    \E f \in CompleteFiles :
        /\ Len(files[f]) = 2
        /\ now.usec # 0
        /\ ParseTime(files[f][2].scheduledTime).sec = now.sec + 900

----------------------------------------------------------------------------
(* Claims about the scraper sessions *)

C20_ClosedExactlyOnce ==
    /\ \A i \in 1..Len(sessions) : sessions[i] <= 1
    /\ sePc \in {"open", "done"} =>
          \A i \in 1..Len(sessions) : sessions[i] = 1
    /\ sePc \in {"login", "search"} =>
          /\ sessions # <<>>
          /\ sessions[Len(sessions)] = 0
          /\ \A i \in 1..(Len(sessions) - 1) : sessions[i] = 1

\* scrape_threads_by_keywords returned after two sessions, the second of
\* which was left through the exception handler with posts collected
C20_Witness ==
    /\ seFn = "scrape_threads_by_keywords" /\ sePc = "done"
    /\ seResult = "data_dir"
    /\ Len(sessions) = 2
    /\ all_scraped_posts > 0 /\ ~csv_written

\* C29: the flag logged_in tracks the authentication state: once login has
\* returned True on the open scraper the flag is True, and navigate_to_threads
\* takes its shortcut on a Threads page exactly when the session is
\* authenticated.
C29_FlagTracksLogin ==
    /\ (sePc = "search" /\ login_result = "True") => logged_in
    /\ \A n \in navigations :
          n.on_threads_page => (n.shortcut <=> n.authenticated)

====
